---- MODULE Spec2Model ----
(***************************************************************************)
(* Model of the clusterpedia reflector (pkg/runtime/informer/reflector.go) *)
(* : the Run / ListAndWatch loop, the forked list task with its pager and  *)
(* result stream, the watch handler and the resync task, together with the *)
(* lister-watcher and the store they talk to.                              *)
(*                                                                         *)
(* Resource versions are strings, as in the code: "" is "never observed",  *)
(* "0" asks for a cache-friendly list, and the server's revisions are the  *)
(* decimal strings "1" .. MaxRV.                                           *)
(***************************************************************************)
EXTENDS Integers, FiniteSets, Sequences, TLC

\* Largest revision the modelled server hands out.
MaxRV == 2

\* Number of distinct natural keys the server can list or send events for.
NumKeys == 2

Keys == 1..NumKeys

\* pager.PageSize default (the pager package's default page size).
defaultPageSize == 500

\* Explicit WatchListPageSize values the configuration is drawn from.
WatchListPageSizes == {0, 1}

\* The settings of the two fields only the watch phase reads: no resync and
\* no retry budget for internal errors, or both (a resync timer that never
\* fires and a budget that is used up behave as the settings left out).
WatchConfigs ==
    {[resyncPeriod |-> 0, MaxInternalErrorRetryDuration |-> 0],
     [resyncPeriod |-> 1, MaxInternalErrorRetryDuration |-> 1]}

\* Capacity of the result stream channel of listWithResultStream.
ResultChanCap == 10

VARIABLES
    \* ---- configuration fields of Reflector, fixed after construction
    StreamHandleForPaginatedList,
    ForcePaginatedList,
    WatchListPageSize,
    resyncPeriod,
    MaxInternalErrorRetryDuration,
    \* ---- Reflector state
    lastSyncResourceVersion,
    isLastSyncResourceVersionUnavailable,
    paginatedResult,
    hasInitializedSynced,
    \* ---- the task running Run / ListAndWatch / list / watchHandler
    pc,             \* position of the main task
    stopCh,         \* TRUE once the stop channel is closed
    options,        \* options.ResourceVersion of list (the outer variable)
    eventCount,     \* watchHandler's eventCount, saturated at 1
    \* ---- the task forked by list (go func at reflector.go:379)
    lpc,            \* "run" while the list task runs, else "idle"
    attempt,        \* 1 for the first pager call, 2 for the retry
    reqRV,          \* ResourceVersion of the options passed to the pager
    pagerPageSize,  \* pager.PageSize as chosen by the switch at 390-411
    pager,          \* state of the running pager.List call
    attLog,         \* history: the outcome of each finished list attempt
    \* ---- listWithResultStream
    ch,             \* items in the result channel
    chClosed,       \* the pager closed the channel
    pend,           \* what pager.List returned, not yet all assigned
    itemKeys,       \* keys gathered by the consuming loop
    leakedPager,    \* the pager task of a listWithResultStream that has
                    \* returned on an error of the consuming loop, followed
                    \* until the next list starts
    \* ---- the store
    store,          \* keys the store holds
    \* ---- the resync task (go func at reflector.go:274)
    resyncTask,     \* "none", "waiting", "exited"
    resyncerrc,     \* "" or the error waiting in resyncerrc
    \* ---- history variables
    lawExit,        \* how the last ListAndWatch returned, until the next
                    \* one starts: "watchExpired", "listRetryErr" (the
                    \* retried list failed), "watchCallErr" (the error of
                    \* the Watch call), "internalErr" (an internal error
                    \* not retried), "other"; else "none"
    carriedRV,      \* RV carried by the last applied list / processed event
    replaceDone,    \* some store.Replace of a list phase returned nil
    phase,          \* what the last completed list phase did
    resyncErrTaken, \* watchHandler received the resync error in this run
    resynced,       \* store.Resync was called in this ListAndWatch
    veryShortWatch, \* watchHandler returned "very short watch" in this run
    lastEvent,      \* what watchHandler did with the last event it received
    listStart,      \* the reflector's fields when the running list began
    \* ---- the resource storage (pkg/storage/internalstorage)
    dialect,        \* db.Dialector.Name() of the open DB handle
    table,          \* the rows of the resources table
    ret,            \* the last call of the storage and the error it returned
    listRes         \* the last List call and what it returned

cfgVars ==
    <<StreamHandleForPaginatedList, ForcePaginatedList, WatchListPageSize,
      resyncPeriod, MaxInternalErrorRetryDuration>>

refVars ==
    <<lastSyncResourceVersion, isLastSyncResourceVersionUnavailable,
      paginatedResult, hasInitializedSynced>>

\* Variables written by the forked list task.
listVars ==
    <<lpc, attempt, reqRV, pager, attLog, ch, chClosed, pend, itemKeys,
      leakedPager>>

resyncVars ==
    <<resyncTask, resyncerrc>>

\* The state of the resource storage.
stVars ==
    <<dialect, table, ret, listRes>>

vars ==
    <<StreamHandleForPaginatedList, ForcePaginatedList, WatchListPageSize,
      resyncPeriod, MaxInternalErrorRetryDuration,
      lastSyncResourceVersion, isLastSyncResourceVersionUnavailable,
      paginatedResult, hasInitializedSynced,
      pc, stopCh, options, eventCount,
      lpc, attempt, reqRV, pagerPageSize, pager, attLog,
      ch, chClosed, pend, itemKeys, leakedPager,
      store, resyncTask, resyncerrc,
      lawExit, carriedRV, replaceDone, phase, resyncErrTaken,
      resynced, veryShortWatch, lastEvent, listStart,
      dialect, table, ret, listRes>>

-----------------------------------------------------------------------------
(* Values *)

\* A revision as the string the API carries.
RVStr(n) ==
    ToString(n)

\* The number a revision string denotes; "" (no version) counts as 0.
RVNum(s) ==
    IF s = "" THEN 0
    ELSE CHOOSE n \in 0..(MaxRV + 1) : ToString(n) = s

\* runtime.Object returned by a list: nil, or a list with its items.  The
\* resource version the list carries is drawn when list reads it.
NilList ==
    [nil |-> TRUE, items |-> {}]

ListObj(items) ==
    [nil |-> FALSE, items |-> items]

\* The named results of listWithResultStream / the locals of list.  gSnap
\* and gErr are history fields: the items the pager call listed, and how the
\* attempt really ended (the pager's error, or "addErr" when store.Add or
\* the key function failed in the consuming loop).
NoRes ==
    [list |-> NilList, itemKeys |-> {}, paginated |-> FALSE, err |-> "nil",
     gSnap |-> {}, gErr |-> "none"]

\* The running pager.List call: where it is, and the items its pages have
\* carried so far.
NoPager ==
    [st |-> "off", snap |-> {}]

FirstPager ==
    [st |-> "first", snap |-> {}]

\* What a completed list phase did: whether the listing itself succeeded,
\* the items it listed, the calls of store.Replace and their argument, the
\* outcome of each list attempt, and the last synced version it began with.
NoPhase ==
    [valid |-> FALSE, listed |-> FALSE, snap |-> {}, replaceCalls |-> 0,
     arg |-> {}, att |-> <<>>, prevRV |-> ""]

\* Errors a List request can return.
ListErrs == {"expired", "tooLarge", "other"}

\* Errors a Watch call can return.
WatchCallErrs == {"connRefused", "tooMany", "other"}

\* Status errors a watch stream (or store.Resync) can deliver; "expired"
\* stands for a 410 of either reason, Expired or Gone.
StatusErrs == {"expired", "tooMany", "internal", "other"}

EventTypes == {"Added", "Modified", "Deleted", "Bookmark"}

\* What watchHandler did with the last event of the running watch: whether
\* there was one, whether its object was of the expected type, and the store
\* operation the event was dispatched to.
NoEvent ==
    [seen |-> FALSE, matches |-> FALSE, op |-> "none", failed |-> FALSE]

\* No pager task is left behind by a consuming loop that returned early;
\* room is the number of objects the result channel of such a task can
\* still take.
NoLeakedPager ==
    [st |-> "none", room |-> 0]

\* The reflector's fields as the running list found them, and whether list
\* has returned on the stop channel since.
NoListStart ==
    [valid |-> FALSE, rv |-> "", unavailable |-> FALSE, paginated |-> FALSE,
     stopped |-> FALSE]

Min(S) ==
    CHOOSE x \in S : \A y \in S : x <= y

-----------------------------------------------------------------------------
(* Pure helpers of the reflector *)

isExpiredError(err) ==
    err = "expired"

isTooLargeResourceVersionError(err) ==
    err = "tooLarge"

\* Variant of relistResourceVersion that forgets the last synced version.
relistResourceVersion_IgnoresLast(unavailable, last, force) ==
    IF unavailable THEN ""
    ELSE IF force THEN "" ELSE "0"

\* Variant of relistResourceVersion that does not read the flag.
relistResourceVersion_FlagIgnored(unavailable, last, force) ==
    IF last = "" THEN (IF force THEN "" ELSE "0")
    ELSE last

\* Reflector.relistResourceVersion
relistResourceVersion(unavailable, last, force) ==
    IF unavailable THEN ""
    ELSE IF last = "" THEN (IF force THEN "" ELSE "0")
    ELSE last

\* Variant of setIsLastSyncResourceVersionUnavailable that also clears the
\* last synced version when it marks it unavailable.
setIsLastSyncResourceVersionUnavailable_ClearsLast(isUnavailable, last) ==
    [unavailable |-> isUnavailable,
     last |-> IF isUnavailable THEN "" ELSE last]

\* Reflector.setIsLastSyncResourceVersionUnavailable: the flag and the last
\* synced version after the call.
setIsLastSyncResourceVersionUnavailable(isUnavailable, last) ==
    [unavailable |-> isUnavailable, last |-> last]

\* The switch that configures pager.PageSize in list.
PagerPageSize(wlps, paginated, rv) ==
    IF wlps # 0 THEN wlps
    ELSE IF paginated THEN defaultPageSize
    ELSE IF rv # "" /\ rv # "0" THEN 0
    ELSE defaultPageSize

\* The update of paginatedResult after a list that returned no error.
NextPaginatedResult(cur, optRV, paginated) ==
    cur \/ (optRV = "0" /\ paginated)

\* Argument list hands to store.Replace: the keys when the stream gathered
\* any, the extracted items of the list otherwise.
ReplaceArg(keys, list) ==
    IF keys # {} THEN keys ELSE list.items

\* Variant of StoreApply that treats a bookmark as a modification.
StoreApply_BookmarkUpdates(type, k, s) ==
    CASE type = "Deleted" -> s \ {k}
      [] OTHER -> s \cup {k}

\* The store's keys after the store operation a watch event is dispatched to.
StoreApply(type, k, s) ==
    CASE type = "Added" -> s \cup {k}
      [] type = "Modified" -> s \cup {k}
      [] type = "Deleted" -> s \ {k}
      [] OTHER -> s

\* The store operation watchHandler's switch dispatches an event to.
StoreOp(type) ==
    CASE type = "Added" -> "Add"
      [] type = "Modified" -> "Update"
      [] type = "Deleted" -> "Delete"
      [] OTHER -> "none"

\* Variant of NextEventCount that counts every event received.
NextEventCount_CountsRejected(matches, count) ==
    1

\* eventCount after an event: the increment at the end of the loop body is
\* skipped by the continue that rejects an object of another type.
NextEventCount(matches, count) ==
    IF matches THEN 1 ELSE count

\* Variant of EventResourceVersion that does not advance on bookmarks.
EventResourceVersion_BookmarkIgnored(type, rv, last) ==
    IF type = "Bookmark" THEN last ELSE rv

\* The resource version watchHandler hands to setLastSyncResourceVersion
\* after an event of the expected type.
EventResourceVersion(type, rv, last) ==
    rv

\* Variant of ListResourceVersion that drops the version of the list.
ListResourceVersion_Dropped(rv) ==
    ""

\* The resource version list hands to setLastSyncResourceVersion: the one
\* the list carries.
ListResourceVersion(rv) ==
    rv

\* Variant of SyncedVersion that records the list's version before the
\* store is synced.
SyncedVersion_SetBeforeSync(synced, rv, last) ==
    rv

\* lastSyncResourceVersion at the end of list, the list's version being rv:
\* it is set after syncWith / syncWithKeys, which returns first if
\* store.Replace fails.
SyncedVersion(synced, rv, last) ==
    IF synced THEN rv ELSE last

\* Variant of StreamAdd that adds the item and drops the items below it.
StreamAdd_DropsOlder(s, k) ==
    {x \in s : x > k} \cup {k}

\* Variant of StreamAdd that replaces the store's contents by the item.
StreamAdd_Overwrite(s, k) ==
    {k}

\* store.Add of the consuming loop of listWithResultStream.
StreamAdd(s, k) ==
    s \cup {k}

\* Variant of WatchNext that handles a very short watch like a throttled
\* server: it waits on the init-conn backoff and watches again.
WatchNext_VeryShortThrottled(err, shouldRetry) ==
    CASE err = "nil" -> [pc |-> "watchLoop", ret |-> FALSE, exit |-> ""]
      [] err = "stopRequested" -> [pc |-> "runBackoff", ret |-> TRUE, exit |-> "other"]
      [] isExpiredError(err) -> [pc |-> "runBackoff", ret |-> TRUE, exit |-> "watchExpired"]
      [] err \in {"tooMany", "veryShort"} -> [pc |-> "initBackoff", ret |-> FALSE, exit |-> ""]
      [] err = "internal" /\ shouldRetry -> [pc |-> "watchLoop", ret |-> FALSE, exit |-> ""]
      [] err = "internal" -> [pc |-> "runBackoff", ret |-> TRUE, exit |-> "internalErr"]
      [] OTHER -> [pc |-> "runBackoff", ret |-> TRUE, exit |-> "other"]

\* Where ListAndWatch goes after watchHandler returned err: the next
\* position, and whether ListAndWatch returns.
WatchNext(err, shouldRetry) ==
    CASE err = "nil" -> [pc |-> "watchLoop", ret |-> FALSE, exit |-> ""]
      [] err = "stopRequested" -> [pc |-> "runBackoff", ret |-> TRUE, exit |-> "other"]
      [] isExpiredError(err) -> [pc |-> "runBackoff", ret |-> TRUE, exit |-> "watchExpired"]
      [] err = "tooMany" -> [pc |-> "initBackoff", ret |-> FALSE, exit |-> ""]
      [] err = "internal" /\ shouldRetry -> [pc |-> "watchLoop", ret |-> FALSE, exit |-> ""]
      [] err = "internal" -> [pc |-> "runBackoff", ret |-> TRUE, exit |-> "internalErr"]
      [] OTHER -> [pc |-> "runBackoff", ret |-> TRUE, exit |-> "other"]

\* Variant of WatchCallNext that returns on a refused connection.
WatchCallNext_ConnRefusedReturns(r) ==
    CASE r = "ok" -> [pc |-> "watching", ret |-> FALSE, exit |-> ""]
      [] r = "tooMany" -> [pc |-> "connBackoff", ret |-> FALSE, exit |-> ""]
      [] OTHER -> [pc |-> "runBackoff", ret |-> TRUE, exit |-> "watchCallErr"]

\* Where ListAndWatch goes after listerWatcher.Watch returned r: the next
\* position, and whether ListAndWatch returns (the error, then).
WatchCallNext(r) ==
    CASE r = "ok" -> [pc |-> "watching", ret |-> FALSE, exit |-> ""]
      [] r \in {"connRefused", "tooMany"} ->
            [pc |-> "connBackoff", ret |-> FALSE, exit |-> ""]
      [] OTHER -> [pc |-> "runBackoff", ret |-> TRUE, exit |-> "watchCallErr"]

\* Variant of ShouldRetry without a deadline.
ShouldRetry_NoDeadline(maxDuration, within) ==
    maxDuration > 0

\* retry.ShouldRetry(): no budget when MaxInternalErrorRetryDuration is 0,
\* otherwise whether the first internal error is still within the budget.
ShouldRetry(maxDuration, within) ==
    maxDuration > 0 /\ within

\* Revisions the server may answer a list with: at least the requested
\* one; a request with "" or "0" names none, and gets whatever revision the
\* server is at.
ListRVs(rv) ==
    (IF rv \in {"", "0"} THEN 1 ELSE RVNum(rv))..MaxRV

\* Revisions the server may send the next watch event with.
EventRVs(last) ==
    RVNum(last)..MaxRV

WatchPcs ==
    {"watchLoop", "watchCall", "connBackoff", "watching", "initBackoff"}

-----------------------------------------------------------------------------
(* Values of the resource storage *)

\* Latest wall-clock time a write can happen at.
MaxClock == 1

\* Largest Limit a List call is made with.
MaxLimit == 2

\* Largest offset a List call's Continue names.
MaxOffset == 3

\* db.Dialector.Name(): a backend the code knows by name (sqlite, sqlite3
\* and postgres are treated as mysql is, but for the text of the SELECT),
\* and one it does not know.
Dialects == {"mysql", "oracle"}

Clusters == {"c1"}

\* Object names, in the order the listing is configured to sort by: "b" is a
\* name of 100 characters, "b+" that name followed by further characters
\* (a name may be as long as the column, size:253).
NameOrder == <<"a", "b", "b+">>

\* The name that is longer than the prefix the unique index keeps of it.
LongName == "b+"

Names == {NameOrder[i] : i \in 1..Len(NameOrder)}

\* The names no longer than the prefix of the unique index.
ShortNames == Names \ {LongName}

NameIndex(n) ==
    CHOOSE i \in 1..Len(NameOrder) : NameOrder[i] = n

UIDs == {"u1", "u2"}

EventUIDs == {"e1", "e2"}

\* cache.MetaNamespaceKeyFunc of the event with each UID.
EventNameOf ==
    [u \in EventUIDs |-> IF u = "e1" THEN "ns/ev1" ELSE "ns/ev2"]

EventVersions == {"1", "2"}

\* sql.NullTime{Valid: false}; a *metav1.Time that is nil.
NullTime == 0

\* A JSONMap / JSON object without entries (stored as SQL NULL).
EmptyMap ==
    [k \in {} |-> ""]

\* What the source cluster reports of an object over its life: the live
\* object, and the object recreated under the same name (another uid, a
\* controller as owner) and being deleted.
Generations ==
    {[uid |-> "u1", ownerUID |-> "", resourceVersion |-> "1",
      creationTimestamp |-> 1, deletionTimestamp |-> NullTime],
     [uid |-> "u2", ownerUID |-> "o1", resourceVersion |-> "2",
      creationTimestamp |-> 2, deletionTimestamp |-> 1]}

\* runtime.Object handed to Create, Update and Delete; kind "" is an object
\* whose GroupVersionKind is not set.
ObjectsNamed(names) ==
    {[kind |-> k, name |-> n, uid |-> g.uid, ownerUID |-> g.ownerUID,
      resourceVersion |-> g.resourceVersion,
      creationTimestamp |-> g.creationTimestamp,
      deletionTimestamp |-> g.deletionTimestamp] :
        k \in {"", "Pod"}, n \in names, g \in Generations}

Objects ==
    ObjectsNamed(ShortNames)

\* The objects of the long name that are handed to Create.
LongObjects ==
    {o \in ObjectsNamed({LongName}) : o.kind # "" /\ o.uid = "u1"}

ValidObjects ==
    {o \in Objects : o.kind # ""}

\* corev1.Event handed to RecordEvent; the first event comes in two
\* revisions.
Events ==
    {e \in [uid : EventUIDs, name : {"ns/ev1", "ns/ev2"},
            involvedUID : {""} \cup UIDs, resourceVersion : EventVersions] :
        /\ e.name = EventNameOf[e.uid]
        /\ e.uid # "e1" => e.resourceVersion = "1"}

\* The argument recorded for a call other than Update.
NoArg ==
    [name |-> ""]

\* What is recorded of a call: the operation, the error it returned (or
\* "panic"), for Update the object and for Delete the name, whether the
\* call is an Update that repeats the Update before it, and whether the row
\* that the call deleted, or that the Delete before this Create deleted, had
\* events.
Returned(op, err) ==
    [op |-> op, err |-> err, arg |-> NoArg, again |-> FALSE,
     hadEvents |-> FALSE]

\* No List call has returned since the last write.
NoList ==
    [valid |-> FALSE]

\* The storage before its first call.
StorageClosed ==
    /\ dialect = "mysql"
    /\ table = {}
    /\ ret = Returned("none", "nil")
    /\ listRes = NoList

-----------------------------------------------------------------------------
Init ==
    /\ StreamHandleForPaginatedList \in BOOLEAN
    /\ ForcePaginatedList \in BOOLEAN
    /\ WatchListPageSize \in WatchListPageSizes
    /\ \E c \in WatchConfigs :
         /\ resyncPeriod = c.resyncPeriod
         /\ MaxInternalErrorRetryDuration = c.MaxInternalErrorRetryDuration
    /\ lastSyncResourceVersion = ""
    /\ isLastSyncResourceVersionUnavailable = FALSE
    /\ paginatedResult = FALSE
    /\ hasInitializedSynced = FALSE
    /\ pc = "runLoop"
    /\ stopCh = FALSE
    /\ options = ""
    /\ eventCount = 0
    /\ lpc = "idle"
    /\ attempt = 0
    /\ reqRV = ""
    /\ pagerPageSize = 0
    /\ pager = NoPager
    /\ attLog = <<>>
    /\ ch = {}
    /\ chClosed = FALSE
    /\ pend = NoRes
    /\ itemKeys = {}
    /\ leakedPager = NoLeakedPager
    /\ store = {}
    /\ resyncTask = "none"
    /\ resyncerrc = ""
    /\ lawExit = "none"
    /\ carriedRV = ""
    /\ replaceDone = FALSE
    /\ phase = NoPhase
    /\ resyncErrTaken = FALSE
    /\ resynced = FALSE
    /\ veryShortWatch = FALSE
    /\ lastEvent = NoEvent
    /\ listStart = NoListStart
    /\ StorageClosed

-----------------------------------------------------------------------------
(* The main task: Run, ListAndWatch, list, watchHandler *)

\* The stop channel is closed by the reflector's owner.
Stop ==
    /\ ~stopCh
    /\ stopCh' = TRUE
    /\ UNCHANGED <<cfgVars, stVars, refVars, pc, options, eventCount, listVars,
                   pagerPageSize, store, resyncVars, lawExit,
                   carriedRV, replaceDone, phase, resyncErrTaken, veryShortWatch, lastEvent, listStart, resynced>>

\* BackoffUntil finds stopCh closed at the top of its loop: Run returns.
RunStop ==
    /\ pc = "runLoop"
    /\ stopCh
    /\ pc' = "done"
    /\ UNCHANGED <<cfgVars, stVars, refVars, stopCh, options, eventCount, listVars,
                   pagerPageSize, store, resyncVars, lawExit,
                   carriedRV, replaceDone, phase, resyncErrTaken, veryShortWatch, lastEvent, listStart, resynced>>

\* BackoffUntil calls ListAndWatch, which calls list: the start version is
\* chosen and the list task is forked with its pager configured.
StartList ==
    /\ pc = "runLoop"
    /\ ~stopCh
    /\ options' = relistResourceVersion(isLastSyncResourceVersionUnavailable,
                                        lastSyncResourceVersion,
                                        ForcePaginatedList)
    /\ pc' = "listWait"
    /\ lpc' = "run"
    /\ attempt' = 1
    /\ reqRV' = options'
    /\ pagerPageSize' = PagerPageSize(WatchListPageSize, paginatedResult, options')
    /\ pager' = FirstPager
    /\ attLog' = <<>>
    /\ ch' = {}
    /\ chClosed' = FALSE
    /\ pend' = NoRes
    /\ itemKeys' = {}
    /\ resyncErrTaken' = FALSE
    /\ veryShortWatch' = FALSE
    /\ lawExit' = "none"
    /\ leakedPager' = NoLeakedPager
    /\ listStart' = [valid |-> TRUE, rv |-> lastSyncResourceVersion,
                     unavailable |-> isLastSyncResourceVersionUnavailable,
                     paginated |-> paginatedResult,
                     stopped |-> FALSE]
    /\ UNCHANGED <<cfgVars, stVars, refVars, stopCh, eventCount, store,
                   resyncVars, carriedRV, replaceDone, phase, resynced,
                   lastEvent>>

\* Variant of ListStop in which ListAndWatch, after list has returned on
\* stopCh, does not test stopCh at the top of the watch loop and calls
\* Watch.
ListStop_GoesOnToWatch ==
    /\ pc = "listWait"
    /\ stopCh
    /\ listStart' = [listStart EXCEPT !.stopped = TRUE]
    /\ hasInitializedSynced' = TRUE
    /\ pc' = "watchCall"
    /\ lawExit' = "none"
    /\ options' = ""
    /\ resyncTask' = "waiting"
    /\ resyncerrc' = ""
    /\ UNCHANGED <<cfgVars, stVars, lastSyncResourceVersion,
                   isLastSyncResourceVersionUnavailable, paginatedResult,
                   stopCh, eventCount, listVars, pagerPageSize,
                   store, carriedRV, replaceDone, phase,
                   resyncErrTaken, veryShortWatch, lastEvent, resynced>>

\* Variant of ListStop in which list, returning on stopCh, clears the
\* unavailable flag as it does after a list without error.
ListStop_ClearsUnavailable ==
    /\ pc = "listWait"
    /\ stopCh
    /\ listStart' = [listStart EXCEPT !.stopped = TRUE]
    /\ isLastSyncResourceVersionUnavailable' = FALSE
    /\ hasInitializedSynced' = TRUE
    /\ pc' = "done"
    /\ lawExit' = "other"
    /\ options' = ""
    /\ resyncTask' = "none"
    /\ resyncerrc' = ""
    /\ UNCHANGED <<cfgVars, stVars, lastSyncResourceVersion,
                   paginatedResult,
                   stopCh, eventCount, listVars, pagerPageSize,
                   store, carriedRV, replaceDone, phase,
                   resyncErrTaken, veryShortWatch, lastEvent, resynced>>

\* list's select takes the stopCh case: list returns nil, ListAndWatch
\* stores hasInitializedSynced, forks the resync task, finds stopCh closed
\* at the top of the watch loop and returns nil, and BackoffUntil, finding
\* stopCh closed in its select or at the top of its loop, returns.  The list
\* task runs on.
ListStop ==
    /\ pc = "listWait"
    /\ stopCh
    /\ listStart' = [listStart EXCEPT !.stopped = TRUE]
    /\ hasInitializedSynced' = TRUE
    /\ pc' = "done"
    /\ lawExit' = "other"
    /\ options' = ""
    /\ resyncTask' = "none"
    /\ resyncerrc' = ""
    /\ UNCHANGED <<cfgVars, stVars, lastSyncResourceVersion,
                   isLastSyncResourceVersionUnavailable, paginatedResult,
                   stopCh, eventCount, listVars, pagerPageSize,
                   store, carriedRV, replaceDone, phase,
                   resyncErrTaken, veryShortWatch, lastEvent, resynced>>

-----------------------------------------------------------------------------
(* The forked list task: pager.List, listWithResultStream, the retry *)

\* The class of a list attempt's outcome, as the history attLog records it.
ErrClass(e) ==
    IF isExpiredError(e) \/ isTooLargeResourceVersionError(e)
    THEN "unavailable" ELSE e

\* list's select takes the listCh case, with r the (list, itemKeys,
\* paginatedResult, err) the list task left, and list runs to its end; on
\* success ListAndWatch stores hasInitializedSynced and forks the resync
\* task.  store.Replace fails, or succeeds with a list of revision n.
ListReturns(r, log) ==
    LET listed == r.gErr = "nil"
        failed == IF Len(log) = 2 /\ ~listed
                  THEN "listRetryErr" ELSE "other"
        arg == ReplaceArg(r.itemKeys, r.list)
        ph(calls, a) == [valid |-> TRUE, listed |-> listed,
                         snap |-> r.gSnap, replaceCalls |-> calls,
                         arg |-> a, att |-> log,
                         prevRV |-> lastSyncResourceVersion]
        fails(calls, a) ==
            /\ pc' = "runBackoff"
            /\ lawExit' = failed
            /\ phase' = ph(calls, a)
            /\ UNCHANGED <<hasInitializedSynced, store, carriedRV,
                           replaceDone, resyncVars>>
    IN  /\ options' = ""
        /\ listStart' = NoListStart
        /\ IF r.err # "nil"
           THEN \* "failed to list"
                /\ fails(0, {})
                /\ UNCHANGED <<lastSyncResourceVersion,
                               isLastSyncResourceVersionUnavailable,
                               paginatedResult>>
           ELSE /\ paginatedResult' =
                      NextPaginatedResult(paginatedResult, options, r.paginated)
                /\ isLastSyncResourceVersionUnavailable' = FALSE
                /\ IF r.list.nil
                   THEN \* "unable to understand list result"
                        /\ fails(0, {})
                        /\ UNCHANGED lastSyncResourceVersion
                   ELSE \/ \* "unable to sync list result"
                           \E n \in ListRVs(reqRV) :
                             /\ fails(1, arg)
                             /\ lastSyncResourceVersion' =
                                    SyncedVersion(FALSE,
                                        ListResourceVersion(RVStr(n)),
                                        lastSyncResourceVersion)
                        \/ \E n \in ListRVs(reqRV) :
                             /\ store' = arg
                             /\ lastSyncResourceVersion' =
                                    SyncedVersion(TRUE,
                                        ListResourceVersion(RVStr(n)),
                                        lastSyncResourceVersion)
                             /\ hasInitializedSynced' = TRUE
                             /\ carriedRV' = RVStr(n)
                             /\ replaceDone' = TRUE
                             /\ phase' = ph(1, arg)
                             /\ resyncTask' = "waiting"
                             /\ resyncerrc' = ""
                             /\ pc' = "watchLoop"
                             /\ lawExit' = "none"

\* What the main task owns is left alone by a step of the list task.
MainIdle ==
    UNCHANGED <<lastSyncResourceVersion, paginatedResult,
                hasInitializedSynced, pc, options, lawExit, carriedRV,
                replaceDone, phase, resyncVars, listStart>>

\* What no step of the list task touches.
ListFrame ==
    UNCHANGED <<cfgVars, stVars, stopCh, eventCount, resyncErrTaken,
                veryShortWatch, lastEvent, resynced>>

\* The list task goes on within the same pager call.
SameCall ==
    UNCHANGED <<isLastSyncResourceVersionUnavailable, lpc, attempt, reqRV,
                pagerPageSize, attLog>>

\* The list task has the results r of one pager call in hand: on an expired
\* / too-large error of the first call it marks the version unavailable and
\* calls the pager again with a fresh relist version; otherwise it closes
\* listCh, on which list, if it still waits, goes on at once (if list has
\* returned on stopCh, nothing reads the results).
GoResult(r, log) ==
    /\ ch' = {}
    /\ chClosed' = FALSE
    /\ pend' = NoRes
    /\ itemKeys' = {}
    /\ IF attempt = 1 /\ (isExpiredError(r.err) \/ isTooLargeResourceVersionError(r.err))
       THEN LET m == setIsLastSyncResourceVersionUnavailable(
                          TRUE, lastSyncResourceVersion)
            IN  /\ isLastSyncResourceVersionUnavailable' = m.unavailable
                /\ lastSyncResourceVersion' = m.last
                /\ attempt' = 2
                /\ reqRV' = relistResourceVersion(m.unavailable, m.last,
                                                  ForcePaginatedList)
                /\ pager' = FirstPager
                /\ attLog' = log
                /\ UNCHANGED <<lpc, pagerPageSize, store, paginatedResult,
                               hasInitializedSynced, pc, options, lawExit,
                               carriedRV, replaceDone, phase, resyncVars,
                               listStart>>
       ELSE /\ lpc' = "idle"
            /\ pager' = NoPager
            /\ attLog' = <<>>
            /\ attempt' = 0
            /\ reqRV' = ""
            /\ pagerPageSize' = 0
            /\ IF pc = "listWait"
               THEN ListReturns(r, log)
               ELSE /\ UNCHANGED <<isLastSyncResourceVersionUnavailable, store>>
                    /\ MainIdle

\* pager.List returns (l, p, e); snap is the set of items it listed and
\* newCh the channel contents once its last page is sent.  With a result
\* stream the pager closes the channel, and the assignment of what it
\* returned to the named results of listWithResultStream is still to come;
\* without one the list task has the results at once.
PagerReturns(l, p, e, snap, newCh) ==
    IF StreamHandleForPaginatedList
    THEN /\ pager' = [NoPager EXCEPT !.st = "returned"]
         /\ pend' = [NoRes EXCEPT !.list = l, !.paginated = p, !.err = e,
                                  !.gSnap = snap, !.gErr = e]
         /\ chClosed' = TRUE
         /\ ch' = newCh
         /\ UNCHANGED <<isLastSyncResourceVersionUnavailable, lpc, attempt,
                        reqRV, pagerPageSize, attLog, itemKeys, store>>
         /\ MainIdle
    ELSE GoResult([list |-> l, itemKeys |-> {}, paginated |-> p, err |-> e,
                   gSnap |-> snap, gErr |-> e],
                  Append(attLog, ErrClass(e)))

PagerRunning ==
    /\ lpc = "run"
    /\ pager.st \in {"first", "cont", "fallback"}

\* A page request fails.  An expired / too-large failure of a continuation
\* request makes the pager start over with one full list, unless it feeds a
\* caller-owned channel; every other failure is returned.
PagerFail ==
    /\ PagerRunning
    /\ \E e \in ListErrs :
         IF /\ pager.st = "cont"
            /\ e \in {"expired", "tooLarge"}
            /\ ~StreamHandleForPaginatedList
         THEN /\ pager' = [st |-> "fallback", snap |-> {}]
              /\ UNCHANGED <<ch, chClosed, pend, itemKeys, store>>
              /\ SameCall
              /\ MainIdle
         ELSE PagerReturns(NilList, pager.st = "cont", e, {}, ch)
    /\ ListFrame
    /\ UNCHANGED leakedPager

\* The first page request succeeds.  Either the page is the whole list (no
\* limit was sent, the server ignored it, or the items fit one page): the
\* pager returns it as it is.  Or, a limit having been sent, the page holds
\* one item and a continue token.  Pages carry the keys in increasing order.
PagerFirst ==
    /\ PagerRunning
    /\ pager.st = "first"
    /\ \E S \in SUBSET Keys, more \in BOOLEAN :
         IF ~more
         THEN PagerReturns(ListObj(S), FALSE, "nil", S, ch)
         ELSE /\ pagerPageSize # 0
              /\ Cardinality(S) = 1
              /\ \E k \in Keys : \A x \in S : x < k
              /\ pager' = [st |-> "cont", snap |-> S]
              /\ ch' = IF StreamHandleForPaginatedList THEN ch \cup S ELSE ch
              /\ UNCHANGED <<chClosed, pend, itemKeys, store>>
              /\ SameCall
              /\ MainIdle
    /\ ListFrame
    /\ UNCHANGED leakedPager

\* A continuation request succeeds with the page P: the next item, or,
\* as the last page, nothing.  After the last page the pager returns the
\* aggregated list (empty when the items went to the channel).
PagerNext ==
    /\ PagerRunning
    /\ pager.st = "cont"
    /\ StreamHandleForPaginatedList => Cardinality(ch) < ResultChanCap
    /\ \E P \in {{}} \cup {{k} : k \in {x \in Keys : \A y \in pager.snap : y < x}},
          more \in BOOLEAN :
         LET newCh == IF StreamHandleForPaginatedList THEN ch \cup P ELSE ch
             snap == pager.snap \cup P
         IN  IF more
             THEN /\ P # {}
                  /\ \E k2 \in Keys : \A y \in P : y < k2
                  /\ pager' = [pager EXCEPT !.snap = snap]
                  /\ ch' = newCh
                  /\ UNCHANGED <<chClosed, pend, itemKeys, store>>
                  /\ SameCall
                  /\ MainIdle
             ELSE PagerReturns(ListObj(IF StreamHandleForPaginatedList
                                       THEN {} ELSE snap),
                               TRUE, "nil", snap, newCh)
    /\ ListFrame
    /\ UNCHANGED leakedPager

\* The full list the pager falls back to succeeds.
PagerFallback ==
    /\ PagerRunning
    /\ pager.st = "fallback"
    /\ \E S \in SUBSET Keys :
         PagerReturns(ListObj(S), FALSE, "nil", S, ch)
    /\ ListFrame
    /\ UNCHANGED leakedPager

\* The named results of listWithResultStream.
StreamResults == {"list", "paginatedResult", "err"}

\* The named results as the consuming loop returns them.  The forked task
\* assigns what pager.List returned to list, paginatedResult and err after
\* the pager has closed the channel, and nothing orders these writes with
\* the loop's writes of err and with its return: seen is the set of named
\* results in which the return finds the pager's value; the others hold what
\* the loop left (the zero values, and in err the loop's own e).  g is how
\* the attempt really ended.
NamedResults(keys, seen, e, g) ==
    [list |-> IF "list" \in seen THEN pend.list ELSE NilList,
     itemKeys |-> keys,
     paginated |-> "paginatedResult" \in seen /\ pend.paginated,
     err |-> IF "err" \in seen THEN pend.err ELSE e,
     gSnap |-> pend.gSnap,
     gErr |-> g]

\* The named results the pager's values can have reached.
Seen ==
    IF pager.st = "returned" THEN SUBSET StreamResults ELSE {{}}

\* The objects the server still has for a pager when its consumer is
\* gone: none, one, as many as the result channel holds, or one more.
RestSizes ==
    {0, 1, ResultChanCap, ResultChanCap + 1}

\* The pager task the consuming loop leaves behind when it returns on an
\* error with left in the channel: if pager.List has not returned, it
\* goes on sending to the channel, which nobody reads any more.  (A pager
\* task left by the retried request of the same list is no longer
\* followed, unless it is blocked.)
AbandonedPager(st, left, leaked) ==
    IF st = "returned" \/ leaked.st = "blocked" THEN leaked
    ELSE [st |-> "sending", room |-> ResultChanCap - Cardinality(left)]

\* Where a pager task without a consumer ends when the server has rest
\* more objects for it: it returns if the channel takes them all, and
\* blocks in the send of the first that does not fit.
LeakedPagerNext(room, rest) ==
    IF rest <= room THEN NoLeakedPager
    ELSE [st |-> "blocked", room |-> 0]

\* The pager task of a consuming loop that has returned fetches its
\* remaining pages and sends their objects to the channel.
LeakedPagerRuns ==
    /\ leakedPager.st = "sending"
    /\ \E rest \in RestSizes :
         leakedPager' = LeakedPagerNext(leakedPager.room, rest)
    /\ UNCHANGED <<cfgVars, stVars, refVars, pc, stopCh, options, eventCount,
                   lpc, attempt, reqRV, pager, attLog, ch, chClosed, pend,
                   itemKeys, pagerPageSize, store, resyncVars, lawExit,
                   carriedRV, replaceDone, phase, resyncErrTaken, resynced,
                   veryShortWatch, lastEvent, listStart>>

\* The consuming loop receives the oldest item of the channel and adds it
\* to the store; if store.Add (or the key function) fails it returns.
ConsumeItem ==
    /\ StreamHandleForPaginatedList
    /\ lpc = "run"
    /\ ch # {}
    /\ LET k == Min(ch)
       IN  \/ /\ store' = StreamAdd(store, k)
              /\ itemKeys' = itemKeys \cup {k}
              /\ ch' = ch \ {k}
              /\ UNCHANGED <<pager, chClosed, pend, leakedPager>>
              /\ SameCall
              /\ MainIdle
           \/ /\ \E seen \in Seen :
                   GoResult(NamedResults(itemKeys, seen, "addErr", "addErr"),
                            Append(attLog, "addErr"))
              /\ leakedPager' = AbandonedPager(pager.st, ch \ {k}, leakedPager)
    /\ ListFrame

\* The consuming loop finds the channel closed and empty and returns the
\* named results as they are at that moment.
ConsumeReturn ==
    /\ StreamHandleForPaginatedList
    /\ lpc = "run"
    /\ ch = {}
    /\ chClosed
    /\ \E seen \in Seen :
         GoResult(NamedResults(itemKeys, seen, "nil", pend.gErr),
                  Append(attLog, ErrClass(pend.gErr)))
    /\ ListFrame
    /\ UNCHANGED leakedPager

-----------------------------------------------------------------------------
(* The watch phase of ListAndWatch *)

\* The top of the watch loop: return nil if stopCh is closed.
WatchLoopTop ==
    /\ pc = "watchLoop"
    /\ IF stopCh
       THEN /\ pc' = "runBackoff"
            /\ lawExit' = "other"
            /\ resyncTask' = "none"
            /\ resyncerrc' = ""
            /\ resynced' = FALSE
       ELSE /\ pc' = "watchCall"
            /\ UNCHANGED <<lawExit, resyncVars, resynced>>
    /\ phase' = NoPhase
    /\ UNCHANGED <<cfgVars, stVars, refVars, stopCh, options, eventCount, listVars,
                   pagerPageSize, store, carriedRV, replaceDone,
                   resyncErrTaken, veryShortWatch, lastEvent, listStart>>

\* listerWatcher.Watch, called with the last synced version, returns r.
\* Connection refused and 429 wait on the init-conn backoff and try again;
\* any other error is returned by ListAndWatch.
WatchCallReturns(r) ==
    LET nx == WatchCallNext(r)
    IN  /\ pc = "watchCall"
        /\ pc' = nx.pc
        /\ lawExit' = IF nx.ret THEN nx.exit ELSE lawExit
        /\ resyncTask' = IF nx.ret THEN "none" ELSE resyncTask
        /\ resyncerrc' = IF nx.ret THEN "" ELSE resyncerrc
        /\ resynced' = IF nx.ret THEN FALSE ELSE resynced
        /\ eventCount' = IF r = "ok" THEN 0 ELSE eventCount
        /\ UNCHANGED <<cfgVars, stVars, refVars, stopCh, options, listVars,
                       pagerPageSize, store, carriedRV, replaceDone,
                       phase, resyncErrTaken, veryShortWatch, lastEvent,
                       listStart>>

WatchCall ==
    \E r \in {"ok"} \cup WatchCallErrs : WatchCallReturns(r)

\* The timer of initConnBackoffManager fires, awaited after a refused or
\* throttled Watch call ("connBackoff") or after a watch that ended with a
\* 429 ("initBackoff").
InitBackoffFire ==
    /\ pc \in {"connBackoff", "initBackoff"}
    /\ pc' = "watchLoop"
    /\ UNCHANGED <<cfgVars, stVars, refVars, stopCh, options, eventCount, listVars,
                   pagerPageSize, store, resyncVars, lawExit,
                   carriedRV, replaceDone, phase, resyncErrTaken, veryShortWatch, lastEvent, listStart, resynced>>

\* watchHandler has returned err (the watch is stopped by its defer) and
\* ListAndWatch classifies it.
AfterWatch(err, shouldRetry, rerr) ==
    LET nx == WatchNext(err, shouldRetry)
    IN  /\ pc' = nx.pc
        /\ lawExit' = IF nx.ret THEN nx.exit ELSE lawExit
        /\ resyncTask' = IF nx.ret THEN "none" ELSE resyncTask
        /\ resyncerrc' = IF nx.ret THEN "" ELSE rerr
        /\ resynced' = IF nx.ret THEN FALSE ELSE resynced
        /\ eventCount' = 0
        /\ lastEvent' = NoEvent

\* Variant of WatchStop: a watchHandler whose select has no stopCh case.
WatchStop_NoStopCase ==
    /\ pc = "watching"
    /\ FALSE
    /\ UNCHANGED vars

\* watchHandler's select takes the stopCh case.
WatchStop ==
    /\ pc = "watching"
    /\ stopCh
    /\ AfterWatch("stopRequested", FALSE, resyncerrc)
    /\ UNCHANGED <<cfgVars, stVars, refVars, stopCh, options, listVars,
                   pagerPageSize, store, carriedRV, replaceDone,
                   phase, resyncErrTaken, veryShortWatch, listStart>>

\* watchHandler's select takes the error the resync task sent.
WatchResyncErr ==
    /\ pc = "watching"
    /\ resyncerrc # ""
    /\ resyncErrTaken' = TRUE
    /\ \E within \in (IF resyncerrc = "internal" THEN BOOLEAN ELSE {FALSE}) :
         AfterWatch(resyncerrc,
                    ShouldRetry(MaxInternalErrorRetryDuration, within), "")
    /\ UNCHANGED <<cfgVars, stVars, refVars, stopCh, options, listVars,
                   pagerPageSize, store, carriedRV, replaceDone,
                   phase, veryShortWatch, listStart>>

\* Variant of WatchEventCall in which watchHandler, when the store
\* operation fails, returns and ListAndWatch opens a new watch.
WatchEventCall_FailureEndsWatch(type, k, n, ok) ==
    /\ pc = "watching"
    /\ pc' = IF ok THEN "watching" ELSE "watchLoop"
    /\ store' = IF ok THEN StoreApply(type, k, store) ELSE store
    /\ lastSyncResourceVersion' =
           EventResourceVersion(type, RVStr(n), lastSyncResourceVersion)
    /\ carriedRV' = RVStr(n)
    /\ eventCount' = NextEventCount(TRUE, eventCount)
    /\ lastEvent' = [seen |-> TRUE, matches |-> TRUE, op |-> StoreOp(type),
                     failed |-> ~ok]
    /\ UNCHANGED <<cfgVars, stVars, isLastSyncResourceVersionUnavailable,
                   paginatedResult, hasInitializedSynced, stopCh,
                   options, listVars, pagerPageSize, resyncVars, lawExit,
                   replaceDone, phase, resyncErrTaken, veryShortWatch,
                   listStart, resynced>>

\* watchHandler receives an Added, Modified, Deleted or Bookmark event for
\* key k at revision n, its object of the expected type.  The event goes to
\* the store, whose operation succeeds (ok) or fails and leaves the store
\* as it is; the last synced version is set and the event is counted.
WatchEventCall(type, k, n, ok) ==
    /\ pc = "watching"
    /\ store' = IF ok THEN StoreApply(type, k, store) ELSE store
    /\ lastSyncResourceVersion' =
           EventResourceVersion(type, RVStr(n), lastSyncResourceVersion)
    /\ carriedRV' = RVStr(n)
    /\ eventCount' = NextEventCount(TRUE, eventCount)
    /\ lastEvent' = [seen |-> TRUE, matches |-> TRUE, op |-> StoreOp(type),
                     failed |-> ~ok]
    /\ UNCHANGED <<cfgVars, stVars, isLastSyncResourceVersionUnavailable,
                   paginatedResult, hasInitializedSynced, pc, stopCh,
                   options, listVars, pagerPageSize, resyncVars, lawExit,
                   replaceDone, phase, resyncErrTaken, veryShortWatch,
                   listStart, resynced>>

\* The keys an event is drawn with: a bookmark names no object, and a store
\* operation that fails does the same for every key.
EventKeys(type, ok) ==
    IF type = "Bookmark" \/ ~ok THEN {Min(Keys)} ELSE Keys

\* The outcomes of the store operation of an event: a bookmark has none to
\* fail.
StoreOutcomes(type) ==
    IF type = "Bookmark" THEN {TRUE} ELSE BOOLEAN

WatchEvent ==
    \E type \in EventTypes, n \in EventRVs(lastSyncResourceVersion) :
      \E ok \in StoreOutcomes(type) :
        \E k \in EventKeys(type, ok) : WatchEventCall(type, k, n, ok)

\* watchHandler receives an event whose object is not of the expected type
\* (or, for an unstructured expected type, kind), or has no metadata: the
\* event is skipped.
WatchEventRejected ==
    /\ pc = "watching"
    /\ eventCount' = NextEventCount(FALSE, eventCount)
    /\ lastEvent' = [seen |-> TRUE, matches |-> FALSE, op |-> "none",
                     failed |-> FALSE]
    /\ UNCHANGED <<cfgVars, stVars, refVars, stopCh, options, listVars,
                   pagerPageSize, store, resyncVars, lawExit, carriedRV,
                   replaceDone, phase, resyncErrTaken, veryShortWatch,
                   listStart, resynced, pc>>

\* watchHandler receives an Error event and returns its status e as an
\* error; within says whether the first internal error of the streak is
\* no longer ago than MaxInternalErrorRetryDuration.
WatchErrorEventCall(e, within) ==
    /\ pc = "watching"
    /\ AfterWatch(e, ShouldRetry(MaxInternalErrorRetryDuration, within),
                  resyncerrc)
    /\ UNCHANGED <<cfgVars, stVars, refVars, stopCh, options, listVars,
                   pagerPageSize, store, carriedRV, replaceDone,
                   phase, resyncErrTaken, veryShortWatch, listStart>>

WatchErrorEvent ==
    \E e \in StatusErrs :
      \E within \in (IF e = "internal" THEN BOOLEAN ELSE {FALSE}) :
        WatchErrorEventCall(e, within)

\* The watch's result channel is closed; short says whether the watch
\* lasted less than a second.
WatchClose ==
    /\ pc = "watching"
    /\ \E short \in BOOLEAN :
         LET err == IF short /\ eventCount = 0 THEN "veryShort" ELSE "nil"
         IN  /\ AfterWatch(err, FALSE, resyncerrc)
             /\ veryShortWatch' = (err = "veryShort")
    /\ UNCHANGED <<cfgVars, stVars, refVars, stopCh, options, listVars,
                   pagerPageSize, store, carriedRV, replaceDone,
                   phase, resyncErrTaken, listStart>>

\* BackoffUntil's select after ListAndWatch returned: stopCh is closed.
RunBackoffStop ==
    /\ pc = "runBackoff"
    /\ stopCh
    /\ pc' = "done"
    /\ phase' = NoPhase
    /\ UNCHANGED <<cfgVars, stVars, refVars, stopCh, options, eventCount, listVars,
                   pagerPageSize, store, resyncVars, lawExit,
                   carriedRV, replaceDone, resyncErrTaken, veryShortWatch, lastEvent, listStart, resynced>>

\* BackoffUntil's select after ListAndWatch returned: the backoff timer fires.
RunBackoffFire ==
    /\ pc = "runBackoff"
    /\ pc' = "runLoop"
    /\ phase' = NoPhase
    /\ UNCHANGED <<cfgVars, stVars, refVars, stopCh, options, eventCount, listVars,
                   pagerPageSize, store, resyncVars, lawExit,
                   carriedRV, replaceDone, resyncErrTaken, veryShortWatch, lastEvent, listStart, resynced>>

-----------------------------------------------------------------------------
(* The resync task *)

\* The resync timer fires, ShouldResync is nil or returns true, and
\* store.Resync is called: if it succeeds the timer is armed again, if it
\* fails the error is sent to resyncerrc and ends the task.  (A tick that
\* ShouldResync turns down arms the timer again and changes nothing.)
ResyncTick ==
    /\ resyncTask = "waiting"
    /\ resyncPeriod > 0
    /\ resynced' = TRUE
    /\ \E r \in {"nil"} \cup StatusErrs :
         IF r = "nil"
         THEN UNCHANGED resyncVars
         ELSE /\ resyncerrc' = r
              /\ resyncTask' = "exited"
    /\ UNCHANGED <<cfgVars, stVars, refVars, pc, stopCh, options, eventCount,
                   listVars, pagerPageSize, store, lawExit,
                   carriedRV, replaceDone, phase, resyncErrTaken, veryShortWatch, lastEvent, listStart>>

\* The resync task's select takes the stopCh case.
ResyncExit ==
    /\ resyncTask = "waiting"
    /\ stopCh
    /\ resyncTask' = "exited"
    /\ UNCHANGED <<cfgVars, stVars, refVars, pc, stopCh, options, eventCount,
                   listVars, pagerPageSize, store, resyncerrc,
                   lawExit, carriedRV, replaceDone, phase, resyncErrTaken, veryShortWatch, lastEvent, listStart, resynced>>

-----------------------------------------------------------------------------
Next ==
    \/ Stop
    \/ RunStop
    \/ StartList
    \/ ListStop
    \/ PagerFail
    \/ PagerFirst
    \/ PagerNext
    \/ PagerFallback
    \/ ConsumeItem
    \/ ConsumeReturn
    \/ LeakedPagerRuns
    \/ WatchLoopTop
    \/ WatchCall
    \/ InitBackoffFire
    \/ WatchStop
    \/ WatchResyncErr
    \/ WatchEvent
    \/ WatchEventRejected
    \/ WatchErrorEvent
    \/ WatchClose
    \/ RunBackoffStop
    \/ RunBackoffFire
    \/ ResyncTick
    \/ ResyncExit

Spec ==
    Init /\ [][Next]_vars

-----------------------------------------------------------------------------
(* Fairness: what the scheduler and the timers owe the main task *)

\* The steps of the main task that wait for nothing but the scheduler, a
\* pending timer, the return of a call, or the closed stop channel.
MainStep ==
    \/ RunStop
    \/ ListStop
    \/ WatchLoopTop
    \/ WatchCall
    \/ InitBackoffFire
    \/ WatchStop
    \/ RunBackoffStop

LiveSpec ==
    Init /\ [][Next]_vars /\ WF_vars(MainStep)

-----------------------------------------------------------------------------
(* The resource storage: rows, codecs and the write operations *)

\* codec.Encode of an event, as far as GetResourceEvents decodes it again.
EncodeEvent(event) ==
    [uid |-> event.uid, resourceVersion |-> event.resourceVersion]

\* The wall-clock times a write can happen at: never before a write whose
\* row is still in the table.
Now(tbl) ==
    {t \in 0..MaxClock : \A r \in tbl : r.synced_at <= t}

\* The Resource that Create builds from the object; gorm fills synced_at
\* (autoUpdateTime) on insert.
NewResource(cluster, obj, now) ==
    [cluster |-> cluster, name |-> obj.name, kind |-> obj.kind,
     owner_uid |-> obj.ownerUID, uid |-> obj.uid,
     resource_version |-> obj.resourceVersion, object |-> obj,
     created_at |-> obj.creationTimestamp,
     deleted_at |-> obj.deletionTimestamp,
     synced_at |-> now, events |-> EmptyMap,
     event_resource_versions |-> EmptyMap]

\* Variant of UniqueIndexViolated for a table created without the unique
\* index.
UniqueIndexViolated_NoIndex(tbl, row) ==
    FALSE

\* uniqueIndex:...,length:100 on Name: what the index keeps of a name where
\* the backend builds a prefix index (MySQL), its first 100 characters.
IndexedName(name) ==
    IF dialect = "mysql" /\ name = LongName THEN "b" ELSE name

\* uniqueIndex:uni_group_version_resource_cluster_namespace_name: the insert
\* of row is rejected when a row with its indexed key exists (group, version
\* and resource are those of the storage, the namespace is the same for all,
\* no cluster name is longer than its prefix).
UniqueIndexViolated(tbl, row) ==
    \E r \in tbl : /\ r.cluster = row.cluster
                   /\ IndexedName(r.name) = IndexedName(row.name)

\* resourceKeyMap: the rows a Where on the natural key selects.
KeyRows(tbl, cluster, name) ==
    {r \in tbl : r.cluster = cluster /\ r.name = name}

\* InterpretResourceDBError: nil stays nil, a duplicate-key violation
\* becomes AlreadyExists, a missing record NotFound.
InterpretResourceDBError(dbErr) ==
    CASE dbErr = "nil" -> "nil"
      [] dbErr = "duplicate" -> "AlreadyExists"
      [] dbErr = "recordNotFound" -> "NotFound"
      [] OTHER -> "internal"

\* Variant of AutoUpdateTime for a column without autoUpdateTime.
AutoUpdateTime_Off(old, now) ==
    old

\* SyncedAt's autoUpdateTime: an update sets the column to the current time.
AutoUpdateTime(old, now) ==
    now

\* Variant of UpdatedResource that keeps the stored resource version when
\* the object's is older.
UpdatedResource_KeepsNewerVersion(r, obj, now) ==
    [r EXCEPT !.owner_uid = obj.ownerUID,
              !.uid = obj.uid,
              !.resource_version =
                  IF RVNum(obj.resourceVersion) >= RVNum(@)
                  THEN obj.resourceVersion ELSE @,
              !.object = obj,
              !.created_at = obj.creationTimestamp,
              !.deleted_at = IF obj.deletionTimestamp # NullTime
                             THEN obj.deletionTimestamp ELSE @,
              !.synced_at = AutoUpdateTime(@, now)]

\* Variant of UpdatedResource that writes the events columns as Create does.
UpdatedResource_ResetsEvents(r, obj, now) ==
    [r EXCEPT !.owner_uid = obj.ownerUID,
              !.uid = obj.uid,
              !.resource_version = obj.resourceVersion,
              !.object = obj,
              !.created_at = obj.creationTimestamp,
              !.deleted_at = IF obj.deletionTimestamp # NullTime
                             THEN obj.deletionTimestamp ELSE @,
              !.synced_at = AutoUpdateTime(@, now),
              !.events = EmptyMap,
              !.event_resource_versions = EmptyMap]

\* The row after Updates(updatedResource): the columns of the map are set,
\* deleted_at only when the object has a deletionTimestamp.
UpdatedResource(r, obj, now) ==
    [r EXCEPT !.owner_uid = obj.ownerUID,
              !.uid = obj.uid,
              !.resource_version = obj.resourceVersion,
              !.object = obj,
              !.created_at = obj.creationTimestamp,
              !.deleted_at = IF obj.deletionTimestamp # NullTime
                             THEN obj.deletionTimestamp ELSE @,
              !.synced_at = AutoUpdateTime(@, now)]

\* The table after ResourceStorage.Update.
UpdateRows(tbl, cluster, obj, now) ==
    {IF r \in KeyRows(tbl, cluster, obj.name)
     THEN UpdatedResource(r, obj, now) ELSE r : r \in tbl}

\* Variant of EventKey that files an event under its involved object.
EventKey_InvolvedObject(event) ==
    event.involvedUID

\* The key RecordEvent files an event under in the events map.
EventKey(event) ==
    event.uid

\* JSONUpdate: the JSON map with the entry of key inserted or overwritten,
\* the other entries kept.
JSONUpdate(m, key, val) ==
    [k \in (DOMAIN m) \cup {key} |-> IF k = key THEN val ELSE m[k]]

\* The table after ResourceStorage.RecordEvent.
RecordEventRows(tbl, cluster, event) ==
    {IF r.cluster = cluster /\ r.uid = event.involvedUID
     THEN [r EXCEPT !.events = JSONUpdate(@, EventKey(event),
                                          EncodeEvent(event)),
                    !.event_resource_versions =
                        JSONUpdate(@, event.name, event.resourceVersion)]
     ELSE r : r \in tbl}

\* EventsBytes.Decode: the events of a JSON map.
Decode(m) ==
    {m[k] : k \in DOMAIN m}

\* ResourceStorage.GetResourceEvents
GetResourceEvents(tbl, cluster, name) ==
    IF KeyRows(tbl, cluster, name) = {}
    THEN [err |-> InterpretResourceDBError("recordNotFound"), events |-> {}]
    ELSE [err |-> "nil",
          events |-> Decode((CHOOSE r \in KeyRows(tbl, cluster, name) : TRUE).events)]

\* Whether the row of the natural key holds an event.
HasEvents(tbl, cluster, name) ==
    \E r \in KeyRows(tbl, cluster, name) : r.events # EmptyMap

\* What no call of the storage touches.
StorageFrame ==
    UNCHANGED <<cfgVars, refVars, pc, stopCh, options, eventCount, listVars,
                pagerPageSize, store, resyncVars, lawExit, carriedRV,
                replaceDone, phase, resyncErrTaken, resynced,
                veryShortWatch, lastEvent, listStart, dialect>>

\* ResourceStorage.Create(ctx, cluster, obj), the insert happening at now.
CreateCall(cluster, obj, now) ==
    LET resource == NewResource(cluster, obj, now)
    IN  /\ IF obj.kind = ""
           THEN /\ ret' = Returned("Create", "kindRequired")
                /\ UNCHANGED table
           ELSE IF UniqueIndexViolated(table, resource)
           THEN /\ ret' = Returned("Create",
                                    InterpretResourceDBError("duplicate"))
                /\ UNCHANGED table
           ELSE /\ ret' = [Returned("Create", InterpretResourceDBError("nil"))
                            EXCEPT !.hadEvents = /\ ret.op = "Delete"
                                                 /\ ret.hadEvents
                                                 /\ ret.arg.name = obj.name]
                /\ table' = table \cup {resource}
        /\ listRes' = NoList
        /\ StorageFrame

Create ==
    \E cluster \in Clusters, obj \in Objects, now \in Now(table) :
      CreateCall(cluster, obj, now)

\* ResourceStorage.Update(ctx, cluster, obj), the update happening at now.
UpdateCall(cluster, obj, now) ==
    /\ table' = UpdateRows(table, cluster, obj, now)
    /\ ret' = [op |-> "Update", err |-> InterpretResourceDBError("nil"),
               arg |-> obj,
               again |-> ret.op = "Update" /\ ret.arg = obj,
               hadEvents |-> FALSE]
    /\ listRes' = NoList
    /\ StorageFrame

Update ==
    \E cluster \in Clusters, obj \in ValidObjects, now \in Now(table) :
      UpdateCall(cluster, obj, now)

\* ResourceStorage.Delete
DeleteCall(cluster, name) ==
    /\ table' = table \ KeyRows(table, cluster, name)
    /\ ret' = [Returned("Delete", InterpretResourceDBError("nil"))
               EXCEPT !.arg = [name |-> name],
                      !.hadEvents = HasEvents(table, cluster, name)]
    /\ listRes' = NoList
    /\ StorageFrame

Delete ==
    \E cluster \in Clusters, name \in ShortNames : DeleteCall(cluster, name)

\* Create of an object whose name is longer than the index's prefix.
CreateLongName ==
    \E cluster \in Clusters, obj \in LongObjects, now \in Now(table) :
      CreateCall(cluster, obj, now)

\* Delete of the long name.
DeleteLongName ==
    \E cluster \in Clusters : DeleteCall(cluster, LongName)

\* ResourceStorage.RecordEvent(ctx, cluster, event)
RecordEventCall(cluster, event) ==
    /\ IF event.involvedUID = ""
       THEN /\ ret' = Returned("RecordEvent", "invalidEvent")
            /\ UNCHANGED table
       ELSE /\ ret' = Returned("RecordEvent", InterpretResourceDBError("nil"))
            /\ table' = RecordEventRows(table, cluster, event)
    /\ listRes' = NoList
    /\ StorageFrame

RecordEvent ==
    \E cluster \in Clusters, event \in Events :
      RecordEventCall(cluster, event)

-----------------------------------------------------------------------------
(* The resource storage: List *)

\* internal.ListOptions, as far as List and its projections read them
\* (a Limit of 0 asks for no limit), and
\* whether listObject is an *unstructured.UnstructuredList.
ListOptions ==
    [Limit : 0..MaxLimit, WithContinue : BOOLEAN,
     Continue : {"", "x"} \cup {ToString(n) : n \in 0..MaxOffset},
     OnlyMetadata : BOOLEAN, InjectEvents : BOOLEAN,
     unstructured : BOOLEAN]

\* The options of the List calls that are made: the second page of the
\* plain projection into a typed list, for every Limit, the same
\* projection without a limit, and a listing of the metadata with the
\* events into a typed list.
ListCalls ==
    {o \in ListOptions :
       \/ /\ o.WithContinue
          /\ ~o.OnlyMetadata /\ ~o.InjectEvents /\ ~o.unstructured
          /\ o.Continue = ToString(o.Limit)
       \/ /\ ~o.WithContinue
          /\ o.OnlyMetadata /\ o.InjectEvents /\ ~o.unstructured
          /\ o.Limit = MaxLimit
          /\ o.Continue = ""}

\* The options with a limit that differ in what the paging of List reads.
PagingOptions ==
    {o \in ListOptions : o.Limit > 0 /\ ~o.InjectEvents /\ ~o.unstructured}

\* The offset the translator decodes from Continue: 0 if absent or
\* malformed.
ContinueOffset(continue) ==
    IF \E n \in 0..(MaxOffset + MaxLimit) : ToString(n) = continue
    THEN CHOOSE n \in 0..(MaxOffset + MaxLimit) : ToString(n) = continue
    ELSE 0

\* The rows in the configured order (by name).
RECURSIVE OrderedRows(_)
OrderedRows(rows) ==
    IF rows = {} THEN <<>>
    ELSE LET r == CHOOSE r \in rows :
                    \A q \in rows : NameIndex(r.name) <= NameIndex(q.name)
         IN  <<r>> \o OrderedRows(rows \ {r})

\* The rows the query selects: ordered, OFFSET offset, LIMIT limit (no
\* LIMIT when limit is 0).
QueryRows(tbl, offset, limit) ==
    LET all == OrderedRows(tbl)
        last == IF limit # 0 /\ offset + limit < Len(all)
                THEN offset + limit ELSE Len(all)
    IN  SubSeq(all, offset + 1, last)

\* genListObjectsQuery: the ObjectList the rows are read into.
ResultList(opts) ==
    CASE opts.OnlyMetadata /\ opts.InjectEvents -> "ResourceMetadataWithEventsList"
      [] opts.OnlyMetadata -> "ResourceMetadataList"
      [] opts.InjectEvents -> "BytesWithEventsList"
      [] OTHER -> "BytesList"

\* ObjectList.From: "nil", or "panic" where the dialect switch of the two
\* metadata lists has no case for the backend.
From(result, name) ==
    IF result \in {"ResourceMetadataList", "ResourceMetadataWithEventsList"}
    THEN IF name \in {"sqlite", "sqlite3", "mysql", "postgres"}
         THEN "nil" ELSE "panic"
    ELSE "nil"

\* The type of the elements ObjectList.Items returns.
ItemType(result) ==
    CASE result = "ResourceMetadataWithEventsList" -> "ResourceMetadata"
      [] result = "ResourceMetadataList" -> "ResourceMetadata"
      [] result = "BytesWithEventsList" -> "BytesWithEvents"
      [] OTHER -> "Bytes"

\* Object.GetEvents: nil, or the decoded events of the row.
GetEvents(type, row) ==
    IF type = "BytesWithEvents"
    THEN [nil |-> FALSE, events |-> Decode(row.events)]
    ELSE [nil |-> TRUE, events |-> {}]

\* The object List converts a row to: the events annotation is set on the
\* items of a typed list whose GetEvents is not nil.
ListItem(result, unstructured, row) ==
    LET events == GetEvents(ItemType(result), row)
    IN  [name |-> row.name,
         annotated |-> ~unstructured /\ ~events.nil,
         events |-> IF ~unstructured /\ ~events.nil THEN events.events ELSE {}]

\* Variant of ContinueToken that counts from the start of the listing.
ContinueToken_FromZero(withContinue, n, limit, offset) ==
    IF withContinue /\ n = limit THEN ToString(limit) ELSE ""

\* Variant of ContinueToken that does not test whether the page is full.
ContinueToken_AnyPage(withContinue, n, limit, offset) ==
    IF withContinue THEN ToString(offset + limit) ELSE ""

\* The Continue List sets on the list ("" when it sets none).
ContinueToken(withContinue, n, limit, offset) ==
    IF withContinue /\ n = limit THEN ToString(offset + limit) ELSE ""

\* ResourceStorage.List: how the call ends, the items and the Continue of
\* the list object.
ListResult(tbl, name, opts) ==
    LET result == ResultList(opts)
        offset == ContinueOffset(opts.Continue)
        rows == QueryRows(tbl, offset, opts.Limit)
    IN  IF From(result, name) = "panic"
        THEN [outcome |-> "panic", items |-> <<>>, continue |-> ""]
        ELSE [outcome |-> "nil",
              items |-> [i \in 1..Len(rows) |->
                           ListItem(result, opts.unstructured, rows[i])],
              continue |-> ContinueToken(opts.WithContinue, Len(rows),
                                         opts.Limit, offset)]

\* ResourceStorage.List(ctx, listObject, opts)
ListCall(opts) ==
    LET res == ListResult(table, dialect, opts)
    IN  /\ listRes' = [valid |-> TRUE, opts |-> opts, outcome |-> res.outcome,
                       items |-> res.items, continue |-> res.continue]
        /\ ret' = Returned("List", res.outcome)
        /\ UNCHANGED table
        /\ StorageFrame

List ==
    \E opts \in ListCalls : ListCall(opts)

-----------------------------------------------------------------------------
(* The storage on its own: any backend, any sequence of calls *)

StorageInit ==
    /\ StreamHandleForPaginatedList = FALSE
    /\ ForcePaginatedList = FALSE
    /\ WatchListPageSize = 0
    /\ resyncPeriod = 0
    /\ MaxInternalErrorRetryDuration = 0
    /\ lastSyncResourceVersion = ""
    /\ isLastSyncResourceVersionUnavailable = FALSE
    /\ paginatedResult = FALSE
    /\ hasInitializedSynced = FALSE
    /\ pc = "runLoop"
    /\ stopCh = FALSE
    /\ options = ""
    /\ eventCount = 0
    /\ lpc = "idle"
    /\ attempt = 0
    /\ reqRV = ""
    /\ pagerPageSize = 0
    /\ pager = NoPager
    /\ attLog = <<>>
    /\ ch = {}
    /\ chClosed = FALSE
    /\ pend = NoRes
    /\ itemKeys = {}
    /\ leakedPager = NoLeakedPager
    /\ store = {}
    /\ resyncTask = "none"
    /\ resyncerrc = ""
    /\ lawExit = "none"
    /\ carriedRV = ""
    /\ replaceDone = FALSE
    /\ phase = NoPhase
    /\ resyncErrTaken = FALSE
    /\ resynced = FALSE
    /\ veryShortWatch = FALSE
    /\ lastEvent = NoEvent
    /\ listStart = NoListStart
    /\ dialect \in Dialects
    /\ table = {}
    /\ ret = Returned("none", "nil")
    /\ listRes = NoList

StorageNext ==
    \/ Create
    \/ Update
    \/ Delete
    \/ RecordEvent
    \/ List

StorageSpec ==
    StorageInit /\ [][StorageNext]_vars

\* The storage of a resource with names on both sides of the index's prefix
\* length: its rows are inserted and deleted.
IndexNext ==
    \/ Create
    \/ Delete
    \/ CreateLongName
    \/ DeleteLongName

IndexSpec ==
    StorageInit /\ [][IndexNext]_vars

-----------------------------------------------------------------------------
(* Properties *)

\* store.Replace of a list phase is called in this step.
ReplaceStep ==
    phase'.valid /\ phase'.replaceCalls = 1

\* C1: LastSyncResourceVersion() is the resource version carried by the
\* last applied list or, if events were processed since, by the last
\* processed event; before any list was applied it is "".
C1_LastSyncIsLastCarried ==
    /\ lastSyncResourceVersion = carriedRV
    /\ ~replaceDone => lastSyncResourceVersion = ""

\* A watch event was processed after a list was applied.
C1_Witness ==
    /\ replaceDone
    /\ pc = "watching"
    /\ eventCount = 1
    /\ lastSyncResourceVersion = RVStr(MaxRV)
    /\ carriedRV = RVStr(MaxRV)

\* C2 (as stated): HasInitializedSynced() is true only if some
\* store.Replace of a list phase has returned successfully.
C2_InitializedOnlyAfterReplace ==
    hasInitializedSynced => replaceDone

\* C3 (as stated): a list phase whose listing succeeded calls store.Replace
\* exactly once, with exactly the items listed; a list phase whose listing
\* failed never calls it.
C3_ReplaceOncePerSuccessfulList ==
    phase.valid =>
        IF phase.listed
        THEN phase.replaceCalls = 1 /\ phase.arg = phase.snap
        ELSE phase.replaceCalls = 0

\* C4 (as stated): during a list phase the store's contents change only at
\* the Replace step.
C4_StoreChangesOnlyAtReplace ==
    [][pc = "listWait" /\ store' # store => ReplaceStep]_vars

\* C4 (amended): during a list phase the store's contents change only at
\* the Replace step or, in stream mode, by store.Add of an item the pager
\* has streamed, which only adds that item to what the store holds.
C4_StoreChangesAtReplaceOrStreamAdd ==
    [][pc = "listWait" /\ store' # store =>
          \/ ReplaceStep
          \/ /\ StreamHandleForPaginatedList
             /\ ~phase'.valid
             /\ \E k \in ch : store' = store \cup {k}]_vars

\* In stream mode, before Replace, the store holds a newly listed item
\* together with an item the finished listing does not contain.
C4_Witness ==
    /\ StreamHandleForPaginatedList
    /\ pc = "listWait"
    /\ pager.st = "returned"
    /\ pend.gErr = "nil"
    /\ itemKeys # {}
    /\ itemKeys \subseteq store
    /\ store \ pend.gSnap # {}

C6_ExpiredListRetriedOnce ==
    /\ pc = "listWait" /\ attempt = 2 =>
          isLastSyncResourceVersionUnavailable /\ reqRV = ""
    /\ phase.valid /\ Len(phase.att) >= 1 /\ phase.att[1] = "unavailable" =>
          Len(phase.att) = 2
    /\ phase.valid /\ Len(phase.att) = 2 /\ phase.att[2] = "nil" =>
          ~isLastSyncResourceVersionUnavailable
    /\ lawExit = "listRetryErr" => isLastSyncResourceVersionUnavailable

\* C7 (as stated): paginatedResult changes only from false to true, and
\* only when the list request that produced the result was issued with
\* resource version "0".
C7_PaginatedOnlyFromInitialList ==
    [][paginatedResult' # paginatedResult =>
          paginatedResult' /\ reqRV = "0"]_vars

\* C8 (as stated): a non-empty lastSyncResourceVersion never reverts to
\* empty and never decreases.
C8_LastSyncNeverDecreases ==
    [][lastSyncResourceVersion # "" =>
          /\ lastSyncResourceVersion' # ""
          /\ RVNum(lastSyncResourceVersion') >= RVNum(lastSyncResourceVersion)]_vars

\* C8 (amended): a non-empty lastSyncResourceVersion never reverts to
\* empty, and it decreases only when a list that was requested with
\* resource version "" is applied.
C8_LastSyncDecreasesOnlyOnRelistFromEmpty ==
    [][lastSyncResourceVersion # "" =>
          /\ lastSyncResourceVersion' # ""
          /\ \/ RVNum(lastSyncResourceVersion') >= RVNum(lastSyncResourceVersion)
             \/ pc = "listWait" /\ reqRV = "" /\ ReplaceStep]_vars

\* A relist requested with "" was applied and took the last synced version
\* back.
C8_Witness ==
    /\ phase.valid
    /\ phase.replaceCalls = 1
    /\ pc = "watchLoop"
    /\ phase.prevRV # ""
    /\ RVNum(lastSyncResourceVersion) < RVNum(phase.prevRV)

\* C9: once the stop channel is closed Run eventually returns, and after it
\* has returned the main task takes no further step.
C9_StopEventuallyReturns ==
    /\ stopCh ~> (pc = "done")
    /\ [][pc = "done" => pc' = "done"]_vars

\* Run has returned after a stop, a list having been applied and the
\* resync task having been started before.
C9_Witness ==
    /\ stopCh
    /\ pc = "done"
    /\ replaceDone
    /\ resyncPeriod > 0
    /\ lpc = "idle"

\* C10 (as stated): once watchHandler has returned the error of
\* store.Resync, ListAndWatch has returned: it is not in its watch loop.
C10_ResyncErrorEndsListAndWatch ==
    resyncErrTaken => pc \notin WatchPcs

\* C11 (as stated): with resyncPeriod = 0 store.Resync is never called;
\* with resyncPeriod > 0, as long as ListAndWatch is in its watch phase
\* (the stop channel open, no resync error waiting to be received) the
\* resync task is alive with its timer armed, so that every expiry is
\* followed by a call of store.Resync.
C11_ResyncEveryPeriodWhileWatching ==
    /\ resyncPeriod = 0 => ~resynced
    /\ /\ pc \in WatchPcs
       /\ resyncPeriod > 0
       /\ ~stopCh
       /\ resyncerrc = ""
       => resyncTask = "waiting"

\* C12: once watchHandler has returned "very short watch" (the result
\* channel closed within a second, no event processed), ListAndWatch has
\* returned: no Watch is issued before BackoffUntil's backoff has passed and
\* a new ListAndWatch has begun.
C12_VeryShortWatchEndsListAndWatch ==
    veryShortWatch => pc \in {"runBackoff", "runLoop", "done"}

\* ListAndWatch has returned after a very short watch and BackoffUntil
\* waits for its backoff.
C12_Witness ==
    /\ veryShortWatch
    /\ pc = "runBackoff"
    /\ ~stopCh
    /\ replaceDone

-----------------------------------------------------------------------------
(* Properties of the resource storage *)

\* No two rows of tbl share the natural key.
NaturalKeyUnique(tbl) ==
    \A r, q \in tbl : r.cluster = q.cluster /\ r.name = q.name => r = q

\* C13: the natural key is unique in every table state, and Create of an
\* object (with a kind) whose natural key has a row returns AlreadyExists
\* and leaves the table as it is.
C13_NaturalKeyUnique ==
    [][/\ NaturalKeyUnique(table')
       /\ ret'.op = "Create" =>
            \A c \in Clusters, o \in ValidObjects, now \in 0..MaxClock :
               CreateCall(c, o, now) /\ KeyRows(table, c, o.name) # {} =>
                  ret'.err = "AlreadyExists" /\ table' = table]_vars

\* Create has been refused on a table that holds a row for every short name.
C13_Witness ==
    /\ ret.op = "Create"
    /\ ret.err = "AlreadyExists"
    /\ \A n \in ShortNames : \E c \in Clusters : KeyRows(table, c, n) # {}

\* C14 (as stated): after Update(cluster, obj) the row's owner_uid, uid,
\* resource_version, object, created_at and deleted_at equal the values
\* derived from obj; deleted_at is NULL when obj has no deletionTimestamp.
C14_UpdateSetsAllColumns ==
    [][\A c \in Clusters, o \in ValidObjects, now \in 0..MaxClock :
         ret'.op = "Update" /\ UpdateCall(c, o, now) =>
            \A r \in KeyRows(table', c, o.name) :
               /\ r.owner_uid = o.ownerUID
               /\ r.uid = o.uid
               /\ r.resource_version = o.resourceVersion
               /\ r.object = o
               /\ r.created_at = o.creationTimestamp
               /\ r.deleted_at = o.deletionTimestamp]_vars

\* C15 (as stated): an Update that repeats the Update before it leaves
\* every column of every row as it is, synced_at included.
C15_UpdateTwiceLeavesRow ==
    [][\A c \in Clusters, o \in ValidObjects, now \in 0..MaxClock :
         ret.op = "Update" /\ ret.arg = o /\ UpdateCall(c, o, now) =>
            table' = table]_vars

\* C15 (amended): an Update that repeats the Update before it leaves every
\* column of the row other than synced_at as it is, and sets synced_at to
\* the time of the second call; the other rows are left as they are.
C15_UpdateTwiceLeavesRowButSyncedAt ==
    [][\A c \in Clusters, o \in ValidObjects, now \in 0..MaxClock :
         ret.op = "Update" /\ ret.arg = o /\ UpdateCall(c, o, now) =>
            table' = {IF r \in KeyRows(table, c, o.name)
                      THEN [r EXCEPT !.synced_at = now] ELSE r :
                      r \in table}]_vars

\* An Update has repeated the Update before it, at a later time, on a row
\* that exists.
C15_Witness ==
    /\ ret.op = "Update"
    /\ ret.again
    /\ \E r \in table :
         r.name = ret.arg.name /\ r.synced_at = MaxClock /\ r.synced_at > 0

\* The pages a client gets that lists with Limit and WithContinue and
\* passes each returned Continue to its next call, at most fuel calls after
\* the first.
RECURSIVE Pages(_, _, _, _, _)
Pages(tbl, name, opts, continue, fuel) ==
    LET res == ListResult(tbl, name, [opts EXCEPT !.Continue = continue])
    IN  IF res.continue = "" \/ res.outcome # "nil" \/ fuel = 0
        THEN <<res>>
        ELSE <<res>> \o Pages(tbl, name, opts, res.continue, fuel - 1)

\* The names of the items of a sequence of pages, in the order returned.
RECURSIVE PageNames(_)
PageNames(pages) ==
    IF pages = <<>> THEN <<>>
    ELSE [i \in 1..Len(pages[1].items) |-> pages[1].items[i].name]
         \o PageNames(Tail(pages))

\* C16: listing with Limit and WithContinue and following the Continue
\* tokens returns every row exactly once, in the configured order, and
\* ends, after no more calls than there are rows plus one, with a page of
\* fewer than Limit rows that carries no Continue.
C16_ContinueEnumeratesEveryRowOnce ==
    \A o \in PagingOptions :
       o.WithContinue /\ o.Continue = ""
       /\ ListResult(table, dialect, o).outcome = "nil" =>
          LET pages == Pages(table, dialect, o, "", Cardinality(table))
              rows == OrderedRows(table)
              last == pages[Len(pages)]
          IN  /\ PageNames(pages) = [i \in 1..Len(rows) |-> rows[i].name]
              /\ last.continue = ""
              /\ Len(last.items) < o.Limit
              /\ \A i \in 1..(Len(pages) - 1) :
                    Len(pages[i].items) = o.Limit

\* The call after a full last page has returned an empty page without a
\* Continue: the table holds exactly Limit rows.
C16_Witness ==
    /\ listRes.valid
    /\ listRes.opts.WithContinue
    /\ listRes.opts.Continue = ToString(listRes.opts.Limit)
    /\ Cardinality(table) = listRes.opts.Limit
    /\ listRes.outcome = "nil"
    /\ listRes.items = <<>>
    /\ listRes.continue = ""

\* C17: a List that returns sets Continue if and only if WithContinue is
\* true and the page holds Limit rows, and then to the decimal string of
\* offset + Limit, the offset being the one decoded from the request's
\* Continue (0 if absent or malformed).
C17_ContinueIffFullPage ==
    /\ \A o \in PagingOptions :
          LET res == ListResult(table, dialect, o)
          IN  res.outcome = "nil" =>
                /\ res.continue # "" <=>
                      o.WithContinue /\ Len(res.items) = o.Limit
                /\ res.continue # "" =>
                      res.continue = ToString(ContinueOffset(o.Continue) + o.Limit)
    /\ listRes.valid =>
          /\ listRes.outcome = ListResult(table, dialect, listRes.opts).outcome
          /\ listRes.continue = ListResult(table, dialect, listRes.opts).continue

\* A List call that asked for the second page got a full page and a
\* Continue.
C17_Witness ==
    /\ listRes.valid
    /\ listRes.opts.Limit > 0
    /\ listRes.opts.WithContinue
    /\ listRes.opts.Continue # ""
    /\ Len(listRes.items) = listRes.opts.Limit
    /\ listRes.continue = ToString(2 * listRes.opts.Limit)

\* C18 (as stated): a List with InjectEvents that returns gives, for every
\* row with at least one recorded event, an object whose events annotation
\* holds exactly the row's events, whatever OnlyMetadata is.
C18_InjectEventsAnnotatesEveryRow ==
    listRes.valid /\ listRes.opts.InjectEvents /\ listRes.outcome = "nil" =>
        \A i \in 1..Len(listRes.items) :
           \A c \in Clusters :
              LET got == GetResourceEvents(table, c, listRes.items[i].name)
              IN  got.events # {} =>
                     /\ listRes.items[i].annotated
                     /\ listRes.items[i].events = got.events

\* The uids of a set of decoded events.
EventUIDsOf(events) ==
    {e.uid : e \in events}

\* C19: after RecordEvent(c, e) with e.involvedObject.UID = U, every row of
\* cluster c with uid U has e among its GetResourceEvents; its events are
\* those it had, with the one of e's UID replaced: their number is the
\* number of distinct event UIDs recorded, and recording an event again
\* leaves the row's events as they are.
C19_RecordEventThenGet ==
    [][\A c \in Clusters, e \in Events :
         ret'.op = "RecordEvent" /\ e.involvedUID # ""
         /\ RecordEventCall(c, e) =>
            \A r \in table :
               r.cluster = c /\ r.uid = e.involvedUID =>
                  LET before == GetResourceEvents(table, c, r.name)
                      after == GetResourceEvents(table', c, r.name)
                  IN  /\ after.err = "nil"
                      /\ EncodeEvent(e) \in after.events
                      /\ EventUIDsOf(after.events) =
                            EventUIDsOf(before.events) \cup {e.uid}
                      /\ Cardinality(after.events) =
                            Cardinality(EventUIDsOf(after.events))
                      /\ EncodeEvent(e) \in before.events =>
                            after.events = before.events]_vars

\* Every event UID has been recorded on a row.
C19_Witness ==
    /\ ret.op = "RecordEvent"
    /\ ret.err = "nil"
    /\ \E r \in table :
         EventUIDsOf(GetResourceEvents(table, r.cluster, r.name).events)
            = EventUIDs

\* C20 (as stated): on a backend that is none of SQLite, MySQL, PostgreSQL
\* a List call returns a configuration error, whatever the projection.
C20_UnknownBackendIsConfigError ==
    /\ listRes.valid
    /\ dialect \notin {"sqlite", "sqlite3", "mysql", "postgres"}
    => listRes.outcome = "configError"

\* C21 (as stated): a successful Create or Update on a natural key that
\* has a row never lowers the row's resource_version.
C21_ResourceVersionNeverDecreases ==
    [][ret'.op \in {"Create", "Update"} /\ ret'.err = "nil" =>
         \A r \in table, q \in table' :
            r.cluster = q.cluster /\ r.name = q.name =>
               RVNum(q.resource_version) >= RVNum(r.resource_version)]_vars

\* C21 (amended): Update is an absolute write: after it the row's
\* resource_version is the one of the object written, be it older or newer
\* than the one stored, so that the stored value does not decrease exactly
\* when the object written is not older.
C21_ResourceVersionIsLastWritten ==
    [][\A c \in Clusters, o \in ValidObjects, now \in 0..MaxClock :
         ret'.op = "Update" /\ UpdateCall(c, o, now) =>
            \A r \in KeyRows(table, c, o.name) :
               \A q \in KeyRows(table', c, o.name) :
                  /\ q.resource_version = o.resourceVersion
                  /\ RVNum(q.resource_version) >= RVNum(r.resource_version)
                        <=> RVNum(o.resourceVersion) >= RVNum(r.resource_version)]_vars

\* An Update has written the older resource version "1" over a row that an
\* object of resource version "2" had been written to (the only object with
\* a deletionTimestamp, which the row still shows).
C21_Witness ==
    /\ ret.op = "Update"
    /\ ret.arg.resourceVersion = "1"
    /\ \E r \in table :
         /\ r.name = ret.arg.name
         /\ r.resource_version = "1"
         /\ r.deleted_at # NullTime

\* C22: Update leaves the events and event_resource_versions of the row as
\* they are (and those of every other row); a Create that succeeds, as the
\* one after a Delete of the natural key does, inserts a row without events.
C22_EventsKeptUntilDelete ==
    [][/\ \A c \in Clusters, o \in ValidObjects, now \in 0..MaxClock :
            ret'.op = "Update" /\ UpdateCall(c, o, now) =>
               /\ \A n \in Names :
                     Cardinality(KeyRows(table', c, n))
                        = Cardinality(KeyRows(table, c, n))
               /\ \A r \in table, q \in table' :
                     r.cluster = q.cluster /\ r.name = q.name =>
                        /\ q.events = r.events
                        /\ q.event_resource_versions = r.event_resource_versions
       /\ \A c \in Clusters, n \in Names :
            ret'.op = "Delete" /\ DeleteCall(c, n) =>
               KeyRows(table', c, n) = {}
       /\ \A c \in Clusters, o \in ValidObjects, now \in 0..MaxClock :
            ret'.op = "Create" /\ ret'.err = "nil" /\ CreateCall(c, o, now) =>
               /\ GetResourceEvents(table', c, o.name).events = {}
               /\ \A q \in KeyRows(table', c, o.name) :
                     /\ q.events = EmptyMap
                     /\ q.event_resource_versions = EmptyMap]_vars

\* A row with events has been deleted and its natural key created again.
C22_Witness ==
    /\ ret.op = "Create"
    /\ ret.err = "nil"
    /\ ret.hadEvents

-----------------------------------------------------------------------------
(* Properties of the watch phase *)

\* C23: an event of the expected type is dispatched to the one store
\* operation of its type, with the event's object: Added to Add, Modified
\* to Update (the object is in the store afterwards), Deleted to Delete (it
\* is not), the other objects left alone, and a failing operation changes
\* nothing; a Bookmark goes to no operation and leaves the store as it is;
\* in every case lastSyncResourceVersion becomes the event's version.
C23_EventDispatchedByType ==
    [][pc = "watching" /\ lastEvent'.seen /\ lastEvent'.matches =>
         \A n \in 1..MaxRV : carriedRV' = RVStr(n) =>
           \A ok \in BOOLEAN : lastEvent'.failed = ~ok =>
             \A type \in EventTypes, k \in Keys :
                WatchEventCall(type, k, n, ok) =>
                   /\ lastEvent'.op =
                         (CASE type = "Added" -> "Add"
                            [] type = "Modified" -> "Update"
                            [] type = "Deleted" -> "Delete"
                            [] type = "Bookmark" -> "none")
                   /\ type \in {"Added", "Modified"} /\ ok =>
                         store' = store \cup {k}
                   /\ type = "Deleted" /\ ok => store' = store \ {k}
                   /\ type = "Bookmark" \/ ~ok => store' = store
                   /\ lastSyncResourceVersion' = RVStr(n)]_vars

\* A Bookmark has been processed in a watch over a store that holds
\* objects: the last synced version is the bookmark's.
C23_Witness ==
    /\ pc = "watching"
    /\ lastEvent.seen
    /\ lastEvent.matches
    /\ lastEvent.op = "none"
    /\ store # {}
    /\ lastSyncResourceVersion = RVStr(MaxRV)
    /\ carriedRV = lastSyncResourceVersion

\* C24: an event whose object is not of the expected type (or kind) causes
\* no store operation, leaves the store and lastSyncResourceVersion as they
\* are, is not counted, and the watch goes on.
C24_MismatchedEventSkipped ==
    [][WatchEventRejected =>
         /\ store' = store
         /\ lastSyncResourceVersion' = lastSyncResourceVersion
         /\ eventCount' = eventCount
         /\ lastEvent'.op = "none"
         /\ pc' = "watching"]_vars

\* The only event of a watch so far has been rejected: no event is counted.
C24_Witness ==
    /\ pc = "watching"
    /\ lastEvent.seen
    /\ ~lastEvent.matches
    /\ eventCount = 0

\* C25: after connection refused or 429 from the Watch call the reflector
\* waits on the init-conn backoff, within the same ListAndWatch and with no
\* list started; from there it goes, lastSyncResourceVersion as it was, to
\* the top of the watch loop and, unless stopped, to the next Watch call.
\* Any other error of the Watch call is returned by ListAndWatch.
C25_WatchCallErrorBacksOffOrReturns ==
    [][/\ \A r \in WatchCallErrs :
            WatchCallReturns(r) =>
               IF r \in {"connRefused", "tooMany"}
               THEN /\ pc' = "connBackoff"
                    /\ lawExit' = "none"
                    /\ lpc' = lpc
                    /\ UNCHANGED refVars
               ELSE /\ pc' = "runBackoff"
                    /\ lawExit' = "watchCallErr"
       /\ pc = "connBackoff" =>
            /\ pc' \in {"connBackoff", "watchLoop"}
            /\ lastSyncResourceVersion' = lastSyncResourceVersion
       /\ pc = "watchLoop" =>
            /\ pc' \in {"watchLoop", "watchCall"} \/ (stopCh /\ pc' = "runBackoff")
            /\ lastSyncResourceVersion' = lastSyncResourceVersion]_vars

\* The reflector waits on the init-conn backoff after the Watch call was
\* refused or throttled, having synced a list before.
C25_Witness ==
    /\ pc = "connBackoff"
    /\ ~stopCh
    /\ replaceDone
    /\ lastSyncResourceVersion # ""

\* C26: an internal error that ends a watch is followed by a new Watch of
\* the same ListAndWatch, with no list, exactly when
\* MaxInternalErrorRetryDuration > 0 and the first internal error of the
\* streak is within that duration; otherwise ListAndWatch returns.
C26_InternalErrorRetriedWithinBudget ==
    [][\A within \in BOOLEAN :
         WatchErrorEventCall("internal", within) =>
            IF MaxInternalErrorRetryDuration > 0 /\ within
            THEN /\ pc' = "watchLoop"
                 /\ lawExit' = "none"
                 /\ lpc' = lpc
                 /\ UNCHANGED refVars
            ELSE /\ pc' = "runBackoff"
                 /\ lawExit' = "internalErr"]_vars

\* With a retry budget configured, an internal error sent by the server
\* has ended ListAndWatch: the budget was used up.
C26_Witness ==
    /\ MaxInternalErrorRetryDuration > 0
    /\ lawExit = "internalErr"
    /\ ~resyncErrTaken
    /\ pc = "runBackoff"

-----------------------------------------------------------------------------
(* Properties of the start of a list *)

C28_StartVersionRule ==
    [][/\ pc = "runLoop" /\ pc' = "listWait" =>
            /\ options' =
                  (IF isLastSyncResourceVersionUnavailable THEN ""
                   ELSE IF lastSyncResourceVersion = ""
                        THEN (IF ForcePaginatedList THEN "" ELSE "0")
                   ELSE lastSyncResourceVersion)
            /\ reqRV' = options'
            /\ attempt' = 1
       /\ attempt = 1 /\ attempt' = 2 =>
            reqRV' =
                  (IF isLastSyncResourceVersionUnavailable' THEN ""
                   ELSE IF lastSyncResourceVersion' = ""
                        THEN (IF ForcePaginatedList THEN "" ELSE "0")
                   ELSE lastSyncResourceVersion')]_vars

\* A list has started from "" although a version is known, because that
\* version is marked unavailable.
C28_Witness ==
    /\ pc = "listWait"
    /\ attempt = 1
    /\ listStart.valid
    /\ listStart.unavailable
    /\ listStart.rv # ""
    /\ options = ""
    /\ reqRV = ""

\* C29: every list request in flight, the first of a list and the retry
\* alike, has the page size of the rule applied to its own resource
\* version: WatchListPageSize if set, else the default if paginatedResult,
\* else none (0) if the version is neither "" nor "0", else the default.
C29_PageSizeRuleForEveryRequest ==
    lpc = "run" /\ attempt \in {1, 2} =>
        pagerPageSize =
            (IF WatchListPageSize # 0 THEN WatchListPageSize
             ELSE IF paginatedResult THEN defaultPageSize
             ELSE IF reqRV # "" /\ reqRV # "0" THEN 0
             ELSE defaultPageSize)

\* C30 as stated: once list has returned on stopCh, no store.Replace is
\* called and lastSyncResourceVersion, isLastSyncResourceVersionUnavailable
\* and paginatedResult have the values of before the list started.
C30_StoppedListChangesNothing ==
    [][listStart'.stopped =>
         /\ phase' = phase
         /\ replaceDone' = replaceDone
         /\ lastSyncResourceVersion' = listStart'.rv
         /\ paginatedResult' = listStart'.paginated
         /\ isLastSyncResourceVersionUnavailable' =
                listStart'.unavailable]_vars

\* C30 amended: once list has returned on stopCh, no store.Replace is
\* called and lastSyncResourceVersion and paginatedResult have the values
\* of before the list started; isLastSyncResourceVersionUnavailable is
\* never cleared, but the list task, which is not stopped, sets it when
\* its first request fails as expired or too large, before or after the
\* stop.
C30_StoppedListNotApplied ==
    [][listStart'.stopped =>
         /\ phase' = phase
         /\ replaceDone' = replaceDone
         /\ lastSyncResourceVersion' = listStart'.rv
         /\ paginatedResult' = listStart'.paginated
         /\ listStart'.unavailable => isLastSyncResourceVersionUnavailable'
         /\ isLastSyncResourceVersionUnavailable =>
                isLastSyncResourceVersionUnavailable'
         /\ ~isLastSyncResourceVersionUnavailable
               /\ isLastSyncResourceVersionUnavailable' =>
                attempt = 1 /\ attempt' = 2]_vars

\* list has returned on stopCh, and the list task it left running has
\* marked the known version unavailable after the stop.
C30_Witness ==
    /\ listStart.stopped
    /\ pc = "done"
    /\ isLastSyncResourceVersionUnavailable
    /\ ~listStart.unavailable
    /\ listStart.rv # ""
    /\ lastSyncResourceVersion = listStart.rv
    /\ attempt = 2

-----------------------------------------------------------------------------
(* Properties of the tasks *)

\* C31: with stopCh closed, the main task can leave every point at which it
\* blocks by a step that takes the stop: list's select, watchHandler's
\* select, BackoffUntil's select, and the sleep on the init-conn backoff,
\* from which ListAndWatch can return (the main task is then in
\* BackoffUntil's select) by its next step.
C31_BlockingPointsCancellable ==
    stopCh =>
        /\ pc = "listWait" => ENABLED ListStop
        /\ pc = "watching" => ENABLED WatchStop
        /\ pc = "runBackoff" => ENABLED RunBackoffStop
        /\ pc \in {"connBackoff", "initBackoff"} =>
              ENABLED (Next /\ pc' = "runBackoff")

\* C32: the list task (the consuming loop of listWithResultStream) and the
\* main task (watchHandler, and list once listCh is closed) are never both
\* where they call the store: while the list task runs the main task waits
\* in list or has returned for good, a step that changes the store while
\* the list task runs on is the list task's alone, and store.Replace is
\* called only once the list task has finished.
C32_StoreCallsNeverOverlap ==
    [][/\ lpc = "run" => pc \in {"listWait", "done"}
       /\ lpc' = "run" => pc' \in {"listWait", "done"}
       /\ lpc = "run" /\ lpc' = "run" /\ store' # store =>
            /\ pc' = pc
            /\ \E k \in ch : store' = store \cup {k} /\ ch' = ch \ {k}
       /\ phase' # phase /\ phase'.valid /\ phase'.replaceCalls > 0 =>
            lpc = "run" /\ lpc' = "idle" /\ pc = "listWait"
       /\ pc = "watching" /\ store' # store => lpc = "idle" /\ lpc' = "idle"]_vars

\* After the stop, with the main task returned for good, the list task
\* that list left running has added an item to a store that a watch had
\* written before.
C32_Witness ==
    /\ pc = "done"
    /\ listStart.stopped
    /\ lpc = "run"
    /\ itemKeys # {}
    /\ replaceDone
    /\ lastEvent = NoEvent
    /\ carriedRV # ""

-----------------------------------------------------------------------------
(* Properties of the recorded events *)

\* C33: RecordEvent of an event whose natural key has, in the row's
\* event_resource_versions, an entry with a newer resource version leaves
\* that entry and the row's events entry of the event as they are.
C33_StaleEventSkipped ==
    [][ret'.op = "RecordEvent" =>
         \A c \in Clusters, e \in Events :
            RecordEventCall(c, e) =>
               \A r \in table, q \in table' :
                  /\ r.cluster = c /\ r.uid = e.involvedUID
                  /\ q.cluster = r.cluster /\ q.name = r.name
                  /\ e.name \in DOMAIN r.event_resource_versions
                  /\ RVNum(r.event_resource_versions[e.name])
                        > RVNum(e.resourceVersion)
                  => /\ q.event_resource_versions[e.name]
                          = r.event_resource_versions[e.name]
                     /\ q.events = r.events]_vars

-----------------------------------------------------------------------------
(* Properties of a list phase that fails *)

\* list returns an error in this step.
ListFailsStep ==
    pc = "listWait" /\ pc' = "runBackoff" /\ phase'.valid

\* C34 as stated, for a reflector no list of which has been applied yet: its
\* list phases have all failed and it has not watched, so when list returns
\* an error the store is as it was constructed, empty, and the returning
\* step itself leaves the store as it is.
C34_FailedListLeavesStore ==
    [][ListFailsStep =>
         /\ store' = store
         /\ ~replaceDone => store' = {}]_vars

\* C34 amended: the step in which list returns an error (that of a failing
\* store.Replace included) leaves the store as it is, and every step that
\* changes the store while list runs, other than the return of a list that
\* succeeded, is a store.Add of the consuming loop of the result stream,
\* which adds the streamed object to what the store holds: so a failed
\* list has removed nothing, and has changed nothing without the result
\* stream.
C34_FailedListOnlyAdds ==
    [][/\ ListFailsStep => store' = store
       /\ pc = "listWait" /\ pc' \in {"listWait", "runBackoff"}
            /\ store' # store =>
               /\ StreamHandleForPaginatedList
               /\ lpc = "run"
               /\ \E k \in ch : store' = store \cup {k} /\ k \in itemKeys']_vars

\* With the result stream a list has failed without calling store.Replace,
\* and the store, which held an object, holds another that the list task
\* added before the failure.
C34_Witness ==
    /\ StreamHandleForPaginatedList
    /\ pc = "runBackoff"
    /\ phase.valid
    /\ ~phase.listed
    /\ phase.replaceCalls = 0
    /\ phase.prevRV # ""
    /\ Cardinality(store) = NumKeys

\* C35: with the result stream, list goes on with what the pager's List
\* call returned: after a listing that succeeded it has the list object and
\* calls store.Replace, and after one that failed it has the error and
\* returns it, leaving isLastSyncResourceVersionUnavailable as the list
\* task left it.
C35_StreamReturnsPagerResults ==
    [][/\ StreamHandleForPaginatedList
       /\ pc = "listWait"
       /\ pc' \in {"runBackoff", "watchLoop"}
       /\ phase'.valid
       => /\ phase'.listed => phase'.replaceCalls = 1
          /\ ~phase'.listed =>
               /\ pc' = "runBackoff"
               /\ phase'.replaceCalls = 0
               /\ isLastSyncResourceVersionUnavailable'
                     = isLastSyncResourceVersionUnavailable]_vars

\* C36: the pager task of a consuming loop that returned on an error is
\* never blocked in a send to the result channel, which nobody reads.
C36_AbandonedPagerTerminates ==
    leakedPager.st # "blocked"

\* C37: when store.Replace fails at the end of a list, ListAndWatch
\* returns an error with lastSyncResourceVersion and hasInitializedSynced
\* as they were and no resync task started; the main task comes
\* to a Watch call only from the top of the watch loop, which it reaches
\* from list only with store.Replace succeeded, hasInitializedSynced set
\* and the resync task started.
C37_ReplaceFailureReturnsBeforeWatch ==
    [][/\ ListFailsStep /\ phase'.replaceCalls = 1 =>
            /\ lastSyncResourceVersion' = lastSyncResourceVersion
            /\ hasInitializedSynced' = hasInitializedSynced
            /\ resyncTask = "none" /\ resyncTask' = "none"
            /\ lawExit' \notin {"none", "watchExpired", "watchCallErr",
                                "internalErr"}
       /\ pc # "watchCall" /\ pc' = "watchCall" => pc = "watchLoop"
       /\ pc = "listWait" /\ pc' = "watchLoop" =>
            /\ phase'.replaceCalls = 1
            /\ replaceDone'
            /\ hasInitializedSynced'
            /\ resyncTask' = "waiting"
       /\ pc = "runBackoff" => pc' \in {"runBackoff", "runLoop", "done"}
       /\ pc = "runLoop" => pc' \in {"runLoop", "listWait", "done"}]_vars

\* The first list of a reflector has failed in store.Replace: nothing is
\* synced, and the list's version is not recorded.
C37_Witness ==
    /\ pc = "runBackoff"
    /\ phase.valid
    /\ phase.replaceCalls = 1
    /\ phase.listed
    /\ phase.arg # {}
    /\ ~replaceDone
    /\ ~hasInitializedSynced
    /\ lastSyncResourceVersion = ""
    /\ store = {}
    /\ resyncTask = "none"

-----------------------------------------------------------------------------
(* Properties of a watch event the store fails on *)

\* C38: when store.Add, store.Update or store.Delete fails on a watch
\* event, the watch goes on, the event is counted and
\* lastSyncResourceVersion becomes the event's version, the store being as
\* it was; and while ListAndWatch stays in its watch phase the last synced
\* version, from which each following Watch is requested, never goes back,
\* so no following watch is asked for the missed change.
C38_FailedStoreOpStillAdvances ==
    [][/\ lastEvent'.failed =>
            \A type \in {"Added", "Modified", "Deleted"}, k \in Keys,
               n \in 1..MaxRV :
               WatchEventCall(type, k, n, FALSE) =>
                  /\ pc' = "watching"
                  /\ lawExit' = lawExit
                  /\ eventCount' = 1
                  /\ store' = store
                  /\ lastSyncResourceVersion' = RVStr(n)
       /\ pc \in WatchPcs /\ pc' \in WatchPcs =>
            RVNum(lastSyncResourceVersion') >= RVNum(lastSyncResourceVersion)]_vars

\* The store, synced from an empty list, has failed to add the object of an
\* Added event of a newer version: it holds nothing, and the last synced
\* version is the event's.
C38_Witness ==
    /\ pc = "watching"
    /\ lastEvent.failed
    /\ lastEvent.op = "Add"
    /\ replaceDone
    /\ store = {}
    /\ lastSyncResourceVersion = RVStr(MaxRV)
    /\ eventCount = 1

-----------------------------------------------------------------------------
(* Properties of the storage: the end of a listing, the unique index *)

\* C39: a List that returns no rows sets no Continue on the list.
C39_NoContinueOnEmptyPage ==
    listRes.valid /\ listRes.outcome = "nil" /\ listRes.items = <<>> =>
        listRes.continue = ""

\* C40: Create succeeds whenever no row with the identical natural key
\* exists: it returns AlreadyExists only when the table holds a row of the
\* same cluster and name, also for names that differ only beyond the first
\* 100 characters.
C40_CreateRejectsOnlyIdenticalKey ==
    [][\A c \in Clusters, o \in ValidObjects \cup LongObjects,
          now \in 0..MaxClock :
         /\ ret'.op = "Create"
         /\ CreateCall(c, o, now)
         /\ KeyRows(table, c, o.name) = {}
         => ret'.err = "nil"]_vars

====
